---- MODULE Spec2Model ----
(***************************************************************************)
(* Trace-based storage-slot locator of eth_contract/slots.py.              *)
(*                                                                         *)
(* One behaviour is one invocation of a locator (or of a bare scanner)     *)
(* over a trace that is supplied lazily, one step per action: the scanners *)
(* are generators over an Iterable, so the next step is an input chosen    *)
(* when the loop asks for it.                                              *)
(*                                                                         *)
(* Byte strings are records [len, val]: len is the length in bytes, val    *)
(* the content read as a big-endian number, so that left-padding with zero *)
(* bytes changes len and keeps val.  val is                                *)
(*   <<n>>         the number n, n < 2^160                                 *)
(*   <<h, n, 0>>   the number h * 2^160 + n with h > 0                     *)
(*   <<a, b>>      keccak256(a ++ b) for byte strings a, b                 *)
(*   <<a, b, 0, 0>> the low 20 bytes of keccak256(a ++ b)                  *)
(* keccak256 is collision free in the model: two digests are equal exactly *)
(* when their inputs are.                                                  *)
(***************************************************************************)
EXTENDS Integers, Sequences, FiniteSets, TLC

WordLen == 32
AddrLen == 20
PreimageLen == 64

\* Bounds on the number of trace steps one scan consumes: of a single-level
\* scan, and of a nested scan (whose reads take two hashes each).
MaxSteps == 4
MaxNestedSteps == 6
\* steps of one trace of a multicall of balanceOf
MaxBatchSteps == 5
\* Bound on the length of a chain value(k1).value(k2)...
MaxChain == 2
\* Bound on the length of the trace of one of two scans run side by side
MaxScanLen == 4
\* Bound on the number of transactions of one send_transactions call
MaxTxs == 3
\* Bound on the length of a trace whose locator is checked on its keys
MaxKeySteps == 5

--------------------------------------------------------------------------
(* Byte strings *)

Bytes(n, v) == [len |-> n, val |-> v]
Word(n) == Bytes(WordLen, <<n>>)
Addr(n) == Bytes(AddrLen, <<n>>)
EmptyBytes == Bytes(0, <<0>>)

IsNumber(b) == Len(b.val) = 1
IsDigest(b) == Len(b.val) = 2

\* bytes.rjust(32, b"\x00")
Rjust32(b) == Bytes(IF b.len < WordLen THEN WordLen ELSE b.len, b.val)

\* b[-20:]
Last20(b) ==
    IF b.len <= AddrLen THEN b
    ELSE CASE Len(b.val) = 1 -> Bytes(AddrLen, b.val)
           [] Len(b.val) = 3 -> Bytes(AddrLen, <<b.val[2]>>)
           [] Len(b.val) = 2 -> Bytes(AddrLen, <<b.val[1], b.val[2], 0, 0>>)
           [] OTHER -> b

\* eth_utils.keccak over the concatenation a ++ b
keccak(a, b) == Bytes(WordLen, <<a, b>>)

\* dict item assignment d[k] = v
Put(d, k, v) == [x \in (DOMAIN d) \cup {k} |-> IF x = k THEN v ELSE d[x]]

None == <<>>

--------------------------------------------------------------------------
(* MappingSlot *)

\* MappingSlot.__init__ raises ValueError unless the slot has 32 bytes
MappingSlotRaises(slot) == slot.len # WordLen

MappingSlot(slot, is_solidity) == [slot |-> slot, is_solidity |-> is_solidity]

\* int.to_bytes(32, "big")
to_bytes32(i) == Word(i)

\* MappingSlot(i, is_solidity) for an integer i
MappingSlotOfInt(i, is_solidity) == MappingSlot(to_bytes32(i), is_solidity)

\* value with the Solidity order whatever the flag says
value_key_first(self, key) ==
    MappingSlot(keccak(Rjust32(key), self.slot), self.is_solidity)

\* value leaving the flag of the new object to its default
value_default_flag(self, key) ==
    IF self.is_solidity
    THEN MappingSlot(keccak(Rjust32(key), self.slot), TRUE)
    ELSE MappingSlot(keccak(self.slot, Rjust32(key)), TRUE)

\* MappingSlot.value
value(self, key) ==
    LET v0 == Rjust32(key)
        v1 == self.slot
    IN  IF self.is_solidity
        THEN MappingSlot(keccak(v0, v1), self.is_solidity)
        ELSE MappingSlot(keccak(v1, v0), self.is_solidity)

--------------------------------------------------------------------------
(* Trace steps.  A step is a record                                        *)
(*   op        the opcode name (get_op_name)                               *)
(*   depth     the call depth                                              *)
(*   has_stack whether the record has a "stack" entry                      *)
(*   stack     the operand stack, bottom first, each entry as the byte     *)
(*             string HexBytes makes of it                                 *)
(*   memory    the memory as a sequence of 32-byte words (get_memory);     *)
(*             offsets are multiples of 32                                 *)

get_op_name(log) == log.op

Top(stack) == stack[Len(stack)]
Second(stack) == stack[Len(stack) - 1]

\* int(x, 16) == 64
IsInt64(b) == IsNumber(b) /\ b.val[1] = PreimageLen

\* get_memory(step)[offset : offset + 64], split as (mem[:32], mem[32:])
PreImage(memory, offset) ==
    LET i == IF IsNumber(offset) THEN (offset.val[1] \div WordLen) + 1
             ELSE Len(memory) + 1
        w(j) == IF j <= Len(memory) THEN memory[j] ELSE EmptyBytes
    IN  <<w(i), w(i + 1)>>

--------------------------------------------------------------------------
(* The scanners.  The state of one scan is the record                      *)
(*   contracts      depth -> contract address                              *)
(*   hashed         hash result -> pre-image pair                          *)
(*   tmp_pre_image  None or the pair waiting for its hash result           *)
(* One iteration of the loop body maps it to an outcome: the new state,    *)
(* the tuple yielded (None when there is none) and the exception raised    *)
(* ("" when there is none).                                                *)

Outcome(sc, y, e) ==
    [contracts |-> sc.contracts, hashed |-> sc.hashed,
     tmp_pre_image |-> sc.tmp_pre_image, yielded |-> y, error |-> e]

\* the pre-image is recorded and stays pending
Drain_no_clear(sc, stack) ==
    IF sc.tmp_pre_image # None
    THEN [sc EXCEPT !.hashed = Put(@, Top(stack), sc.tmp_pre_image)]
    ELSE sc

\* the hash result is at the top of the stack of the next op
Drain(sc, stack) ==
    IF sc.tmp_pre_image # None
    THEN [sc EXCEPT !.hashed = Put(@, Top(stack), sc.tmp_pre_image),
                    !.tmp_pre_image = None]
    ELSE sc

\* stack[-1] of the drain raises IndexError on an empty stack
DrainRaises(sc, stack) == sc.tmp_pre_image # None /\ Len(stack) = 0

\* KECCAK256 without the test of the size
KeccakBranch_any_size(d, step) ==
    IF Len(step.stack) < 2 THEN Outcome(d, None, "IndexError")
    ELSE Outcome([d EXCEPT !.tmp_pre_image = PreImage(step.memory, Top(step.stack))],
                 None, "")

\* KECCAK256 emitting its pre-image at once, before any read
KeccakBranch_emit(d, step) ==
    IF Len(step.stack) < 2 THEN Outcome(d, None, "IndexError")
    ELSE IF ~IsInt64(Second(step.stack)) THEN Outcome(d, None, "")
    ELSE LET p == PreImage(step.memory, Top(step.stack))
         IN  Outcome([d EXCEPT !.tmp_pre_image = p],
                     <<d.contracts[1], p[1], p[2], keccak(p[1], p[2])>>, "")

\* op == "KECCAK256"
KeccakBranch(d, step) ==
    LET stack == step.stack
    IN  IF Len(stack) < 2 THEN Outcome(d, None, "IndexError")
        ELSE IF ~IsInt64(Second(stack)) THEN Outcome(d, None, "")
        ELSE Outcome([d EXCEPT !.tmp_pre_image = PreImage(step.memory, Top(stack))],
                     None, "")

\* CALL taking the word on top of the stack as the target
CallBranch_stack_top(d, step) ==
    IF Len(step.stack) < 2 THEN Outcome(d, None, "IndexError")
    ELSE Outcome([d EXCEPT !.contracts =
                     Put(@, step.depth + 1, Last20(Top(step.stack)))], None, "")

\* CALL writing the entry of its own depth
CallBranch_own_depth(d, step) ==
    IF Len(step.stack) < 2 THEN Outcome(d, None, "IndexError")
    ELSE Outcome([d EXCEPT !.contracts =
                     Put(@, step.depth, Last20(Second(step.stack)))], None, "")

\* CALL keeping the call context as a stack: the entries of the frames below
\* the new one are dropped
CallBranch_truncate(d, step) ==
    IF Len(step.stack) < 2 THEN Outcome(d, None, "IndexError")
    ELSE Outcome([d EXCEPT !.contracts =
                     Put([k \in { j \in DOMAIN @ : j <= step.depth } |-> @[k]],
                         step.depth + 1, Last20(Second(step.stack)))], None, "")

\* op in ("CALL", "STATICCALL")
CallBranch(d, step) ==
    LET stack == step.stack
    IN  IF Len(stack) < 2 THEN Outcome(d, None, "IndexError")
        ELSE Outcome([d EXCEPT !.contracts =
                         Put(@, step.depth + 1, Last20(Second(stack)))], None, "")

\* DELEGATECALL handled like CALL: the new depth gets the call target
DelegateCallBranch_target(d, step) ==
    IF Len(step.stack) < 2 THEN Outcome(d, None, "IndexError")
    ELSE Outcome([d EXCEPT !.contracts =
                     Put(@, step.depth + 1, Last20(Second(step.stack)))], None, "")

\* op == "DELEGATECALL"
DelegateCallBranch(d, step) ==
    LET depth == step.depth
    IN  IF depth \notin DOMAIN d.contracts THEN Outcome(d, None, "KeyError")
        ELSE Outcome([d EXCEPT !.contracts = Put(@, depth + 1, d.contracts[depth])],
                     None, "")

\* SLOAD attributing every hit to the top-level frame
SloadBranch_top_frame(d, step) ==
    IF Len(step.stack) = 0 THEN Outcome(d, None, "IndexError")
    ELSE IF Top(step.stack) \notin DOMAIN d.hashed THEN Outcome(d, None, "")
    ELSE IF step.depth \notin DOMAIN d.contracts THEN Outcome(d, None, "KeyError")
    ELSE Outcome(d, <<d.contracts[1], d.hashed[Top(step.stack)][1],
                      d.hashed[Top(step.stack)][2], Top(step.stack)>>, "")

\* op == "SLOAD" in parse_mapping_reads
SloadBranch(d, step) ==
    LET stack == step.stack
    IN  IF Len(stack) = 0 THEN Outcome(d, None, "IndexError")
        ELSE LET slot == Top(stack)
             IN  IF slot \notin DOMAIN d.hashed THEN Outcome(d, None, "")
                 ELSE IF step.depth \notin DOMAIN d.contracts
                      THEN Outcome(d, None, "KeyError")
                      ELSE Outcome(d, <<d.contracts[step.depth], d.hashed[slot][1],
                                        d.hashed[slot][2], slot>>, "")

\* the nested lookup of parse_nested_mapping_reads: None, or <<v0, v1, v2>>
NestedLookup(hashed, n0, n1) ==
    IF n0 \in DOMAIN hashed THEN <<hashed[n0][1], hashed[n0][2], n1>>
    ELSE IF n1 \in DOMAIN hashed THEN <<hashed[n1][1], hashed[n1][2], n0>>
    ELSE None

\* op == "SLOAD" in parse_nested_mapping_reads
NestedSloadBranch(d, step) ==
    LET stack == step.stack
    IN  IF Len(stack) = 0 THEN Outcome(d, None, "IndexError")
        ELSE LET slot == Top(stack)
             IN  IF slot \notin DOMAIN d.hashed THEN Outcome(d, None, "")
                 ELSE LET v == NestedLookup(d.hashed, d.hashed[slot][1], d.hashed[slot][2])
                      IN  IF v = None THEN Outcome(d, None, "")
                          ELSE IF step.depth \notin DOMAIN d.contracts
                               THEN Outcome(d, None, "KeyError")
                               ELSE Outcome(d, <<d.contracts[step.depth],
                                                 v[1], v[2], v[3], slot>>, "")

\* one iteration of the loop of parse_mapping_reads
parse_mapping_reads(sc, step) ==
    IF ~step.has_stack THEN Outcome(sc, None, "")
    ELSE IF DrainRaises(sc, step.stack) THEN Outcome(sc, None, "IndexError")
    ELSE LET d == Drain(sc, step.stack)
             op == get_op_name(step)
         IN  CASE op = "KECCAK256" -> KeccakBranch(d, step)
               [] op = "SLOAD" -> SloadBranch(d, step)
               [] op \in {"CALL", "STATICCALL"} -> CallBranch(d, step)
               [] op = "DELEGATECALL" -> DelegateCallBranch(d, step)
               [] OTHER -> Outcome(d, None, "")

\* one iteration of the loop of parse_nested_mapping_reads
parse_nested_mapping_reads(sc, step) ==
    IF ~step.has_stack THEN Outcome(sc, None, "")
    ELSE IF DrainRaises(sc, step.stack) THEN Outcome(sc, None, "IndexError")
    ELSE LET d == Drain(sc, step.stack)
             op == get_op_name(step)
         IN  CASE op = "KECCAK256" -> KeccakBranch(d, step)
               [] op = "SLOAD" -> NestedSloadBranch(d, step)
               [] op \in {"CALL", "STATICCALL"} -> CallBranch(d, step)
               [] op = "DELEGATECALL" -> DelegateCallBranch(d, step)
               [] OTHER -> Outcome(d, None, "")

--------------------------------------------------------------------------
(* The locators: what the body of the for loop does with one yielded      *)
(* tuple.  The verdict is the record [result, returned, error].            *)

Verdict(r, ret, e) == [result |-> r, returned |-> ret, error |-> e]

\* return MappingSlot(index, is_solidity), or the ValueError of __init__
Return(index, is_solidity, result) ==
    IF MappingSlotRaises(index) THEN Verdict(result, FALSE, "ValueError")
    ELSE Verdict(<<MappingSlot(index, is_solidity)>>, TRUE, "")

\* result[contract] = MappingSlot(index, is_solidity)
Store(contract, index, is_solidity, result) ==
    IF MappingSlotRaises(index) THEN Verdict(result, FALSE, "ValueError")
    ELSE Verdict(Put(result, contract, MappingSlot(index, is_solidity)), FALSE, "")

\* parse_balance_slot returning the operand that matched as the index
parse_balance_slot_matched_operand(token, user, t, result) ==
    IF t[1] # token THEN Verdict(result, FALSE, "")
    ELSE IF t[2] = user THEN Return(t[2], TRUE, result)
    ELSE IF t[3] = user THEN Return(t[3], FALSE, result)
    ELSE Verdict(result, FALSE, "")

\* parse_balance_slot testing the Vyper order first
parse_balance_slot_vyper_first(token, user, t, result) ==
    IF t[1] # token THEN Verdict(result, FALSE, "")
    ELSE IF t[3] = user THEN Return(t[2], FALSE, result)
    ELSE IF t[2] = user THEN Return(t[3], TRUE, result)
    ELSE Verdict(result, FALSE, "")

\* body of the loop of parse_balance_slot; user is already padded
parse_balance_slot(token, user, t, result) ==
    IF t[1] # token THEN Verdict(result, FALSE, "")
    ELSE IF t[2] = user THEN Return(t[3], TRUE, result)
    ELSE IF t[3] = user THEN Return(t[2], FALSE, result)
    ELSE Verdict(result, FALSE, "")

\* parse_allowance_slot without the filter on the spender
parse_allowance_slot_any_spender(token, user, spender, t, result) ==
    IF t[1] # token THEN Verdict(result, FALSE, "")
    ELSE IF t[2] = user THEN Return(t[3], TRUE, result)
    ELSE IF t[3] = user THEN Return(t[2], FALSE, result)
    ELSE Verdict(result, FALSE, "")

\* body of the loop of parse_allowance_slot; user and spender are padded
parse_allowance_slot(token, user, spender, t, result) ==
    IF t[1] # token THEN Verdict(result, FALSE, "")
    ELSE IF t[4] # spender THEN Verdict(result, FALSE, "")
    ELSE IF t[2] = user THEN Return(t[3], TRUE, result)
    ELSE IF t[3] = user THEN Return(t[2], FALSE, result)
    ELSE Verdict(result, FALSE, "")

\* body of the loop of parse_batch_allowance_slot
parse_batch_allowance_slot(tokens, user, spender, t, result) ==
    IF t[1] \notin tokens THEN Verdict(result, FALSE, "")
    ELSE IF t[4] # spender THEN Verdict(result, FALSE, "")
    ELSE IF t[2] = user THEN Store(t[1], t[3], TRUE, result)
    ELSE IF t[3] = user THEN Store(t[1], t[2], FALSE, result)
    ELSE Verdict(result, FALSE, "")

\* parse_batch_balance_slot without the filter on the candidate set
parse_batch_balance_slot_any_contract(tokens, user, t, result) ==
    IF t[2] = user THEN Store(t[1], t[3], TRUE, result)
    ELSE IF t[3] = user THEN Store(t[1], t[2], FALSE, result)
    ELSE Verdict(result, FALSE, "")

\* body of the loop of parse_batch_balance_slot
parse_batch_balance_slot(tokens, user, t, result) ==
    IF t[1] \notin tokens THEN Verdict(result, FALSE, "")
    ELSE IF t[2] = user THEN Store(t[1], t[3], TRUE, result)
    ELSE IF t[3] = user THEN Store(t[1], t[2], FALSE, result)
    ELSE Verdict(result, FALSE, "")

--------------------------------------------------------------------------
(* Inputs *)

Step(op, depth, stack, memory) ==
    [op |-> op, depth |-> depth, has_stack |-> TRUE, stack |-> stack,
     memory |-> memory]

\* a record without a "stack" entry
NoStackStep(op, depth) ==
    [op |-> op, depth |-> depth, has_stack |-> FALSE, stack |-> <<>>,
     memory |-> <<>>]

\* the probe keys of tests/test_slots.py and a mapping index
User == Addr(1)
Spender == Addr(2)
Index == Word(9)
\* contracts: the token, a second contract, a logic contract behind a proxy
Token == Addr(161)
Other == Addr(162)
Logic == Addr(163)
\* b"\x00" * 20, the placeholder of the batch locators
Placeholder == Addr(0)

Size64 == Bytes(1, <<PreimageLen>>)
Size32 == Bytes(1, <<WordLen>>)
Offset0 == Bytes(1, <<0>>)
Offset32 == Bytes(1, <<WordLen>>)

\* the digests a balance or allowance accessor computes
InnerSol == keccak(Rjust32(User), Index)
InnerVy == keccak(Index, Rjust32(User))
InnerOther == keccak(Rjust32(Spender), Index)
OuterSol == keccak(Rjust32(Spender), InnerSol)
OuterVy == keccak(InnerVy, Rjust32(Spender))
OuterSolVy == keccak(InnerSol, Rjust32(Spender))
OuterVySol == keccak(Rjust32(Spender), InnerVy)
OuterOther == keccak(Rjust32(User), InnerSol)
OuterBoth == keccak(InnerSol, InnerVy)
\* a mapping whose index is the padded probe key itself
InnerTie == keccak(Rjust32(User), Rjust32(User))
OuterTie == keccak(Rjust32(Spender), InnerTie)

Locators ==
    { "parse_balance_slot", "parse_allowance_slot", "parse_batch_balance_slot",
      "parse_batch_allowance_slot", "parse_mapping_reads",
      "parse_nested_mapping_reads" }

Nested(f) ==
    f \in { "parse_allowance_slot", "parse_batch_allowance_slot",
            "parse_nested_mapping_reads" }

Batch(f) == f \in { "parse_batch_balance_slot", "parse_batch_allowance_slot" }

\* The traces of a balanceOf call: one hash per read.
KeccakSteps1 ==
    { Step("KECCAK256", 1, <<Size64, Offset0>>, p) :
        p \in { <<Rjust32(User), Index>>, <<Index, Rjust32(User)>>,
                <<Rjust32(Spender), Index>>,
                <<Rjust32(User), Rjust32(User)>>,
                \* the memory ends inside the hashed region
                <<Rjust32(User)>> } }
    \cup { \* a hash over 32 bytes
           Step("KECCAK256", 1, <<Size32, Offset0>>, <<Rjust32(User), Index>>),
           \* the hashed region starts at byte 32
           Step("KECCAK256", 2, <<Size64, Offset32>>,
                <<Index, Index, Rjust32(User)>>),
           \* fewer than two stack entries
           Step("KECCAK256", 1, <<Offset0>>, <<Rjust32(User), Index>>) }

SloadSteps1 ==
    { Step("SLOAD", d, <<InnerSol>>, <<>>) : d \in 1 .. 3 }
    \cup { Step("SLOAD", d, <<InnerVy>>, <<>>) : d \in 1 .. 2 }
    \cup { Step("SLOAD", 1, <<InnerOther>>, <<>>),
           Step("SLOAD", 1, <<InnerTie>>, <<>>),
           Step("SLOAD", 1, <<Index>>, <<>>),
           Step("SLOAD", 1, <<>>, <<>>) }

CallSteps1 ==
    { Step("CALL", 1, <<a, Offset0>>, <<>>) : a \in {Token, Other} }
    \cup { Step("STATICCALL", d, <<Other, Offset0>>, <<>>) : d \in 1 .. 2 }
    \cup { \* the target as a full word with bits above the address
           Step("CALL", 1, <<Bytes(WordLen, <<1, 161, 0>>), Offset0>>, <<>>),
           Step("CALL", 1, <<Offset0>>, <<>>) }

DelegateCallSteps1 ==
    { Step("DELEGATECALL", d, <<Logic, Offset0>>, <<>>) : d \in 1 .. 3 }

OtherSteps1 ==
    { Step("DUP1", 1, <<InnerSol>>, <<>>),
      Step("CALLCODE", 1, <<Other, Offset0>>, <<>>),
      Step("POP", 1, <<>>, <<>>) }

\* The traces of an allowance call: two hashes per read.
KeccakSteps2 ==
    { Step("KECCAK256", 1, <<Size64, Offset0>>, p) :
        p \in { <<Rjust32(User), Index>>, <<Index, Rjust32(User)>>,
                <<Rjust32(Spender), InnerSol>>, <<InnerVy, Rjust32(Spender)>>,
                <<InnerSol, Rjust32(Spender)>>, <<Rjust32(Spender), InnerVy>>,
                <<Rjust32(User), InnerSol>>, <<InnerSol, InnerVy>>,
                <<Rjust32(User), Rjust32(User)>>,
                <<Rjust32(Spender), InnerTie>> } }
    \cup { Step("KECCAK256", 1, <<Offset0>>, <<Rjust32(User), Index>>) }

SloadSteps2 ==
    { Step("SLOAD", 1, <<h>>, <<>>) :
        h \in { OuterSol, OuterVy, OuterSolVy, OuterVySol, OuterOther,
                OuterBoth, OuterTie, InnerSol } }
    \cup { Step("SLOAD", d, <<OuterSol>>, <<>>) : d \in 2 .. 3 }
    \cup { Step("SLOAD", 1, <<>>, <<>>) }

CallSteps2 ==
    { Step("CALL", 1, <<Other, Offset0>>, <<>>),
      Step("STATICCALL", 1, <<Token, Offset0>>, <<>>),
      Step("CALL", 1, <<Offset0>>, <<>>) }

DelegateCallSteps2 ==
    { Step("DELEGATECALL", d, <<Logic, Offset0>>, <<>>) : d \in 1 .. 2 }

OtherSteps2 ==
    { Step("DUP1", 1, <<h>>, <<>>) : h \in {InnerSol, InnerVy, InnerTie} }
    \cup { Step("POP", 1, <<>>, <<>>) }

\* The traces of a multicall of balanceOf: the batching contract runs at
\* depth 1 and calls into the tokens and into a third contract.
KeccakSteps3 ==
    { Step("KECCAK256", 1, <<Size64, Offset0>>, p) :
        p \in { <<Rjust32(User), Index>>, <<Index, Rjust32(User)>>,
                <<Rjust32(Spender), Index>> } }
    \cup { Step("KECCAK256", 1, <<Offset0>>, <<Rjust32(User), Index>>) }

SloadSteps3 ==
    { Step("SLOAD", d, <<h>>, <<>>) :
        d \in 1 .. 2, h \in {InnerSol, InnerVy, InnerOther} }
    \cup { Step("SLOAD", 3, <<InnerSol>>, <<>>),
           Step("SLOAD", 1, <<>>, <<>>) }

CallSteps3 ==
    { Step("CALL", 1, <<a, Offset0>>, <<>>) :
        a \in { Token, Other,
                \* the third contract, as a full word with bits above the address
                Bytes(WordLen, <<1, 163, 0>>) } }
    \cup { Step("STATICCALL", 2, <<Other, Offset0>>, <<>>),
           \* a record with depth 0
           Step("CALL", 0, <<Other, Offset0>>, <<>>) }

DelegateCallSteps3 ==
    { Step("DELEGATECALL", d, <<Logic, Offset0>>, <<>>) : d \in 1 .. 2 }

OtherSteps3 ==
    { Step("DUP1", 1, <<InnerSol>>, <<>>),
      Step("POP", 1, <<>>, <<>>) }

NoStackSteps == { NoStackStep("STOP", 1) }

\* parse_batch_balance_slot reads the traces of a multicall
Multicall(f) == f = "parse_batch_balance_slot"

KeccakSteps(f) ==
    IF Nested(f) THEN KeccakSteps2
    ELSE IF Multicall(f) THEN KeccakSteps3 ELSE KeccakSteps1
SloadSteps(f) ==
    IF Nested(f) THEN SloadSteps2
    ELSE IF Multicall(f) THEN SloadSteps3 ELSE SloadSteps1
CallSteps(f) ==
    IF Nested(f) THEN CallSteps2
    ELSE IF Multicall(f) THEN CallSteps3 ELSE CallSteps1
DelegateCallSteps(f) ==
    IF Nested(f) THEN DelegateCallSteps2
    ELSE IF Multicall(f) THEN DelegateCallSteps3 ELSE DelegateCallSteps1
OtherSteps(f) ==
    IF Nested(f) THEN OtherSteps2
    ELSE IF Multicall(f) THEN OtherSteps3 ELSE OtherSteps1
StepBound(f) ==
    IF Nested(f) THEN MaxNestedSteps
    ELSE IF Multicall(f) THEN MaxBatchSteps ELSE MaxSteps

--------------------------------------------------------------------------
(* One invocation *)

VARIABLES
    fn,             \* the function invoked
    tracer,         \* "evm": every 64-byte KECCAK256 step is followed by a step
                    \* showing its digest; "any": the steps are arbitrary records
    token,          \* its token (the top_contract of a bare scanner)
    tokens,         \* the candidate set of a batch locator
    user,           \* the probe key, as passed
    spender,        \* the second probe key, as passed
    init_slot,      \* the slot argument of a MappingSlot(...) call under way,
                    \* None when there is none
    step,           \* the trace step consumed last
    n,              \* the number of trace steps consumed
    calls,          \* the CALL, STATICCALL and DELEGATECALL steps consumed
    contracts,      \* the scan's call context
    hashed,         \* the scan's hash table
    tmp_pre_image,  \* the scan's pending pre-image
    yielded,        \* the tuple the last step yielded, or None
    out,            \* the tuples yielded so far
    result,         \* None or <<MappingSlot>>; the dict of a batch locator
    status,         \* "running", "returned" or "raised"
    error,          \* the exception raised, "" when none
    chain,          \* MappingSlot objects: a root, then each the value() of the
                    \* one before it
    keys,           \* the keys passed to value(), in order
    traces,         \* two scans side by side: the trace each one iterates
    scans,          \* and, per scan, its local variables, the number of
                    \* steps it consumed, the tuples it yielded, its exception
    extra,          \* send_transactions: the fields applied to every transaction
    nonces,         \* its dict of locally simulated nonces
    sent,           \* the transactions it has handed to the node, as sent
    node,           \* the node's transaction count of each account
    phase,          \* where send_transactions stands: "loop" at the head of
                    \* the first loop, the name of the call it is suspended
                    \* in, "done" or "raised"; "" outside send_transactions
    send_args,      \* the arguments account and check of the call
    cur,            \* the transaction of the iteration under way
    fetches,        \* the answers of get_transaction_count, in order
    receipts,       \* the status of each receipt appended to receipts
    pending,        \* the senders of the transactions handed to the node that
                    \* it has not counted yet, in the order they came in
    other           \* another task's deploy_presigned_tx call: where it stands
                    \* and its local variables

vars ==
    <<fn, tracer, token, tokens, user, spender, init_slot, step, n, calls,
      contracts, hashed, tmp_pre_image, yielded, out, result, status, error, chain, keys, traces,
      scans, extra, nonces, sent, node, phase, send_args, cur, fetches, receipts,
      pending, other>>

send_vars ==
    <<extra, nonces, sent, node, phase, send_args, cur, fetches, receipts,
      pending, other>>

\* no send_transactions call is under way
NoSend ==
    /\ extra = <<>>
    /\ nonces = <<>>
    /\ sent = <<>>
    /\ node = <<>>
    /\ phase = ""
    /\ send_args = <<>>
    /\ cur = <<>>
    /\ fetches = <<>>
    /\ receipts = <<>>
    /\ pending = <<>>
    /\ other = <<>>

scan_vars ==
    <<step, n, calls, contracts, hashed, tmp_pre_image, yielded, out, result,
      status, error>>

args == <<fn, tracer, token, tokens, user, spender, init_slot>>

\* the top_contract the locator hands to its scanner
top_contract(f, t) == IF Batch(f) THEN Placeholder ELSE t

InitScan(f, tr) ==
    /\ fn = f
    /\ tracer = tr
    /\ token = Token
    /\ tokens = {Token, Other}
    /\ user = User
    /\ spender = Spender
    /\ init_slot = None
    /\ step = NoStackStep("", 0)
    /\ n = 0
    /\ calls = <<>>
    /\ contracts = (1 :> top_contract(f, Token))
    /\ hashed = <<>>
    /\ tmp_pre_image = None
    /\ yielded = None
    /\ out = <<>>
    /\ result = <<>>
    /\ status = "running"
    /\ error = ""

InitWith(f, tr) ==
    /\ InitScan(f, tr)
    /\ chain = <<>>
    /\ keys = <<>>
    /\ traces = <<>>
    /\ scans = <<>>
    /\ NoSend

Init ==
    \E f \in Locators :
        InitWith(f, IF Nested(f) \/ Multicall(f) THEN "evm" ELSE "any")

\* the locator comparing the keys as they were passed
LocateAs_unpadded(u, sp, t, res) ==
    CASE fn = "parse_balance_slot" -> parse_balance_slot(token, u, t, res)
      [] fn = "parse_allowance_slot" -> parse_allowance_slot(token, u, sp, t, res)
      [] fn = "parse_batch_balance_slot" -> parse_batch_balance_slot(tokens, u, t, res)
      [] fn = "parse_batch_allowance_slot" ->
            parse_batch_allowance_slot(tokens, u, sp, t, res)
      [] OTHER -> Verdict(res, FALSE, "")

\* the locator fn called with the keys u and sp: they are padded before the
\* loop, whose body is applied to the yielded tuple t and the result so far
LocateAs(u, sp, t, res) ==
    CASE fn = "parse_balance_slot" ->
            parse_balance_slot(token, Rjust32(u), t, res)
      [] fn = "parse_allowance_slot" ->
            parse_allowance_slot(token, Rjust32(u), Rjust32(sp), t, res)
      [] fn = "parse_batch_balance_slot" ->
            parse_batch_balance_slot(tokens, Rjust32(u), t, res)
      [] fn = "parse_batch_allowance_slot" ->
            parse_batch_allowance_slot(tokens, Rjust32(u), Rjust32(sp), t, res)
      [] OTHER -> Verdict(res, FALSE, "")

\* the loop body of the locator fn applied to the yielded tuple t
Locate(t) == LocateAs(user, spender, t, result)

IsCall(s) == get_op_name(s) \in {"CALL", "STATICCALL", "DELEGATECALL"}

\* the digest the EVM pushes for a KECCAK256 whose recorded pre-image is p: the
\* hashed region reads as zero past the end of the memory
Digest(p) ==
    keccak(IF p[1] = EmptyBytes THEN Word(0) ELSE p[1],
           IF p[2] = EmptyBytes THEN Word(0) ELSE p[2])

\* whether the tracer can produce s as the next step
Traced(s) ==
    tracer = "evm" /\ tmp_pre_image # None =>
        /\ s.has_stack
        /\ Len(s.stack) > 0
        /\ Top(s.stack) = Digest(tmp_pre_image)

\* the scanner consumes the step s; the locator consumes what it yields
Consume(s) ==
    /\ status = "running"
    /\ n < StepBound(fn)
    /\ Traced(s)
    /\ LET sc == [contracts |-> contracts, hashed |-> hashed,
                  tmp_pre_image |-> tmp_pre_image]
           o == IF Nested(fn) THEN parse_nested_mapping_reads(sc, s)
                ELSE parse_mapping_reads(sc, s)
           v == IF o.error # "" THEN Verdict(result, FALSE, o.error)
                ELSE IF o.yielded = None THEN Verdict(result, FALSE, "")
                ELSE Locate(o.yielded)
       IN  /\ contracts' = o.contracts
           /\ hashed' = o.hashed
           /\ tmp_pre_image' = o.tmp_pre_image
           /\ yielded' = o.yielded
           /\ out' = IF o.yielded = None THEN out ELSE Append(out, o.yielded)
           /\ calls' = IF s.has_stack /\ IsCall(s) /\ o.error = ""
                       THEN Append(calls, s) ELSE calls
           /\ result' = v.result
           /\ error' = v.error
           /\ status' = IF v.error # "" THEN "raised"
                        ELSE IF v.returned THEN "returned" ELSE "running"
    /\ step' = s
    /\ n' = n + 1
    /\ UNCHANGED <<args, chain, keys, traces, scans, send_vars>>

NoStack == \E s \in NoStackSteps : Consume(s)
Keccak == \E s \in KeccakSteps(fn) : Consume(s)
Sload == \E s \in SloadSteps(fn) : Consume(s)
Call == \E s \in CallSteps(fn) : Consume(s)
DelegateCall == \E s \in DelegateCallSteps(fn) : Consume(s)
OtherOp == \E s \in OtherSteps(fn) : Consume(s)

\* the trace is exhausted: the loop ends and the function returns
Exhausted ==
    /\ status = "running"
    /\ status' = "returned"
    /\ UNCHANGED <<args, step, n, calls, contracts, hashed, tmp_pre_image,
                   yielded, out, result, error, chain, keys, traces, scans,
                   send_vars>>

Next == NoStack \/ Keccak \/ Sload \/ Call \/ DelegateCall \/ OtherOp \/ Exhausted

Spec == Init /\ [][Next]_vars

\* one specification per function invoked
SpecBalance == InitWith("parse_balance_slot", "any") /\ [][Next]_vars
SpecAllowance == InitWith("parse_allowance_slot", "evm") /\ [][Next]_vars
SpecBatchBalance == InitWith("parse_batch_balance_slot", "evm") /\ [][Next]_vars
SpecBatchAllowance == InitWith("parse_batch_allowance_slot", "evm") /\ [][Next]_vars
\* either batch locator
SpecBatch ==
    /\ \E f \in {"parse_batch_balance_slot", "parse_batch_allowance_slot"} :
           InitWith(f, "evm")
    /\ [][Next]_vars
\* either single-token locator
SpecSingle ==
    /\ \/ InitWith("parse_balance_slot", "any")
       \/ InitWith("parse_allowance_slot", "evm")
    /\ [][Next]_vars
\* any of the four locators
SpecLocators ==
    /\ \E f \in Locators \ {"parse_mapping_reads", "parse_nested_mapping_reads"} :
           InitWith(f, IF Nested(f) \/ Multicall(f) THEN "evm" ELSE "any")
    /\ [][Next]_vars
SpecReads == InitWith("parse_mapping_reads", "any") /\ [][Next]_vars
SpecNestedReads == InitWith("parse_nested_mapping_reads", "evm") /\ [][Next]_vars

--------------------------------------------------------------------------
(* MappingSlot objects and their derivation *)

\* 32-byte slots a descriptor is built from
Roots == { Index, Word(0), InnerSol }

\* keys of 0, 1, 20, 32 and 33 bytes
Keys ==
    { User, Rjust32(User), Spender, Bytes(1, <<1>>), EmptyBytes,
      Bytes(WordLen + 1, <<1, 1, 0>>) }

InitValue ==
    /\ InitScan("MappingSlot.value", "any")
    /\ \E slot \in Roots, is_solidity \in BOOLEAN :
           chain = <<MappingSlot(slot, is_solidity)>>
    /\ keys = <<>>
    /\ traces = <<>>
    /\ scans = <<>>
    /\ NoSend

\* m.value(key) on the last object of the chain
Value ==
    /\ fn \in {"MappingSlot", "MappingSlot.value"}
    /\ chain # <<>>
    /\ Len(keys) < MaxChain
    /\ \E key \in Keys :
           /\ chain' = Append(chain, value(chain[Len(chain)], key))
           /\ keys' = Append(keys, key)
    /\ UNCHANGED <<args, scan_vars, traces, scans, send_vars>>

SpecValue == InitValue /\ [][Value]_vars

\* the slot argument of the constructor: an int or a byte string
IntArg(i) == [is_int |-> TRUE, int |-> i, bytes |-> EmptyBytes]
BytesArg(b) == [is_int |-> FALSE, int |-> 0, bytes |-> b]

\* integers, and byte strings of 0, 20, 31, 32 and 33 bytes
SlotArgs ==
    { IntArg(i) : i \in {0, 9} }
    \cup { BytesArg(b) : b \in { Index, InnerSol, User, EmptyBytes,
                                 Bytes(WordLen - 1, <<9>>),
                                 Bytes(WordLen + 1, <<1, 1, 0>>) } }

\* __init__ accepting a slot of any length
MappingSlotInit_unchecked(arg, is_solidity) ==
    LET slot == IF arg.is_int THEN to_bytes32(arg.int) ELSE arg.bytes
    IN  [error |-> "", object |-> <<MappingSlot(slot, is_solidity)>>]

\* MappingSlot.__init__: the exception raised ("" when none) and the object
MappingSlotInit(arg, is_solidity) ==
    LET slot == IF arg.is_int THEN to_bytes32(arg.int) ELSE arg.bytes
    IN  IF MappingSlotRaises(slot) THEN [error |-> "ValueError", object |-> None]
        ELSE [error |-> "", object |-> <<MappingSlot(slot, is_solidity)>>]

InitObjects ==
    /\ fn = "MappingSlot"
    /\ tracer = "any"
    /\ token = Token
    /\ tokens = {Token, Other}
    /\ user = User
    /\ spender = Spender
    /\ init_slot \in SlotArgs
    /\ step = NoStackStep("", 0)
    /\ n = 0
    /\ calls = <<>>
    /\ contracts = <<>>
    /\ hashed = <<>>
    /\ tmp_pre_image = None
    /\ yielded = None
    /\ out = <<>>
    /\ result = <<>>
    /\ status = "running"
    /\ error = ""
    /\ chain = <<>>
    /\ keys = <<>>
    /\ traces = <<>>
    /\ scans = <<>>
    /\ NoSend

\* MappingSlot(init_slot, is_solidity)
Construct ==
    /\ fn = "MappingSlot"
    /\ status = "running"
    /\ chain = <<>>
    /\ \E is_solidity \in BOOLEAN :
           LET o == MappingSlotInit(init_slot, is_solidity)
           IN  /\ chain' = o.object
               /\ error' = o.error
               /\ status' = IF o.error # "" THEN "raised" ELSE "running"
    /\ UNCHANGED <<args, step, n, calls, contracts, hashed, tmp_pre_image,
                   yielded, out, result, keys, traces, scans, send_vars>>

SpecObjects == InitObjects /\ [][Construct \/ Value]_vars

\* a chain of value() calls, or a call of any of the four locators on a trace
\* of at most MaxKeySteps steps
SpecKeys ==
    /\ \/ InitValue
       \/ \E f \in Locators \ {"parse_mapping_reads",
                                 "parse_nested_mapping_reads"} :
              InitWith(f, IF Nested(f) \/ Multicall(f) THEN "evm" ELSE "any")
    /\ [][\/ fn \in Locators /\ n < MaxKeySteps /\ Next
          \/ fn \in Locators /\ Exhausted
          \/ Value]_vars

--------------------------------------------------------------------------
(* Two scans side by side.  Each call of a scanner is a generator with its *)
(* own local variables contracts, hashed and tmp_pre_image; the caller     *)
(* advances either generator by one trace step at a time.                  *)

\* the steps the two traces are made of, for each scanner
ScanSteps(f) ==
    IF Nested(f)
    THEN { Step("KECCAK256", 1, <<Size64, Offset0>>, <<Rjust32(User), Index>>),
           Step("DUP1", 1, <<InnerSol>>, <<>>),
           Step("KECCAK256", 1, <<Size64, Offset0>>, <<Rjust32(Spender), InnerSol>>),
           Step("SLOAD", 1, <<OuterSol>>, <<>>),
           Step("CALL", 1, <<Other, Offset0>>, <<>>),
           Step("SLOAD", 2, <<OuterSol>>, <<>>) }
    ELSE { Step("KECCAK256", 1, <<Size64, Offset0>>, <<Rjust32(User), Index>>),
           Step("DUP1", 1, <<InnerSol>>, <<>>),
           Step("SLOAD", 1, <<InnerSol>>, <<>>),
           Step("CALL", 1, <<Other, Offset0>>, <<>>),
           Step("SLOAD", 2, <<InnerSol>>, <<>>),
           Step("SLOAD", 1, <<>>, <<>>) }

\* a trace that records the hashes, opens depth 2 for another contract and
\* ends with a pre-image pending
BusyTrace(f) ==
    IF Nested(f)
    THEN << Step("KECCAK256", 1, <<Size64, Offset0>>, <<Rjust32(User), Index>>),
            Step("DUP1", 1, <<InnerSol>>, <<>>),
            Step("KECCAK256", 1, <<Size64, Offset0>>, <<Rjust32(Spender), InnerSol>>),
            Step("CALL", 1, <<Logic, OuterSol>>, <<>>),
            Step("KECCAK256", 1, <<Size64, Offset0>>, <<Index, Rjust32(User)>>) >>
    ELSE << Step("KECCAK256", 1, <<Size64, Offset0>>, <<Rjust32(User), Index>>),
            Step("CALL", 1, <<Logic, InnerSol>>, <<>>),
            Step("KECCAK256", 1, <<Size64, Offset0>>, <<Index, Rjust32(User)>>) >>

\* the traces of at most MaxScanLen steps
ScanTraces(f) == UNION { [1 .. k -> ScanSteps(f)] : k \in 0 .. MaxScanLen }

\* the local variables of a scanner before its loop
NewScan(top) ==
    [contracts |-> (1 :> top), hashed |-> <<>>, tmp_pre_image |-> None]

\* every call of a scanner has one set of locals for all calls
Owner_module_scope(i) == 1

\* the locals that the i-th call of a scanner reads and writes: its own
Owner(i) == i

\* the top_contract of each scan: the same for the same trace
ScanTop(i) == IF i = 2 /\ traces[1] # traces[2] THEN Other ELSE Token

InitScans ==
    /\ \E f \in {"parse_mapping_reads", "parse_nested_mapping_reads"} :
           /\ InitScan(f, "any")
           /\ \E t \in ScanTraces(f) :
                  \/ traces = <<t, t>>
                  \/ traces = <<t, BusyTrace(f)>>
    /\ chain = <<>>
    /\ keys = <<>>
    /\ scans = [locals |-> <<NewScan(Token),
                             NewScan(IF traces[1] # traces[2] THEN Other ELSE Token)>>,
                pos |-> <<0, 0>>,
                out |-> << <<>>, <<>> >>,
                error |-> <<"", "">>]
    /\ NoSend

\* the scanner fn on one step from the locals sc
Scan(sc, s) ==
    IF Nested(fn) THEN parse_nested_mapping_reads(sc, s)
    ELSE parse_mapping_reads(sc, s)

\* next() on the i-th generator: it consumes the next step of its trace
Advance(i) ==
    /\ scans.error[i] = ""
    /\ scans.pos[i] < Len(traces[i])
    /\ LET o == Scan(scans.locals[Owner(i)], traces[i][scans.pos[i] + 1])
       IN  scans' =
               [locals |-> [scans.locals EXCEPT ![Owner(i)] =
                                [contracts |-> o.contracts, hashed |-> o.hashed,
                                 tmp_pre_image |-> o.tmp_pre_image]],
                pos |-> [scans.pos EXCEPT ![i] = @ + 1],
                out |-> [scans.out EXCEPT ![i] =
                            IF o.yielded = None THEN @ ELSE Append(@, o.yielded)],
                error |-> [scans.error EXCEPT ![i] = o.error]]
    /\ UNCHANGED <<args, scan_vars, chain, keys, traces, send_vars>>

AdvanceFirst == Advance(1)
AdvanceSecond == Advance(2)

SpecScans == InitScans /\ [][AdvanceFirst \/ AdvanceSecond]_vars

RECURSIVE Alone(_, _, _, _)
\* the scanner f run by itself over the first k steps of the trace tr: the
\* tuples it yields and its exception
Alone(f, top, tr, k) ==
    IF k = 0 THEN [locals |-> NewScan(top), out |-> <<>>, error |-> ""]
    ELSE LET a == Alone(f, top, tr, k - 1)
             o == IF Nested(f) THEN parse_nested_mapping_reads(a.locals, tr[k])
                  ELSE parse_mapping_reads(a.locals, tr[k])
         IN  [locals |-> [contracts |-> o.contracts, hashed |-> o.hashed,
                          tmp_pre_image |-> o.tmp_pre_image],
              out |-> IF o.yielded = None THEN a.out ELSE Append(a.out, o.yielded),
              error |-> o.error]

\* The two scanners over one trace.  The caller runs parse_mapping_reads (scan
\* 1) and parse_nested_mapping_reads (scan 2) on the same trace with the same
\* top_contract; the trace is supplied one step at a time and each scanner
\* that has not raised consumes the step.
BothSteps ==
    ScanSteps("parse_mapping_reads") \cup ScanSteps("parse_nested_mapping_reads")
    \cup { Step("DELEGATECALL", 1, <<Logic, Offset0>>, <<>>),
           Step("STATICCALL", 2, <<Logic, Offset0>>, <<>>),
           Step("SLOAD", 3, <<InnerSol>>, <<>>),
           \* an opcode that opens a frame and that the scanners do not track
           Step("CALLCODE", 1, <<Logic, Offset0>>, <<>>) }

\* the scanner that scan i runs, on one step from the locals sc
ScanAs(i, sc, s) ==
    IF i = 2 THEN parse_nested_mapping_reads(sc, s) ELSE parse_mapping_reads(sc, s)

InitBoth ==
    /\ InitScan("parse_mapping_reads, parse_nested_mapping_reads", "any")
    /\ chain = <<>>
    /\ keys = <<>>
    /\ traces = << <<>>, <<>> >>
    /\ scans = [locals |-> <<NewScan(Token), NewScan(Token)>>,
                pos |-> <<0, 0>>,
                out |-> << <<>>, <<>> >>,
                error |-> <<"", "">>]
    /\ NoSend

\* the next step of the trace, consumed by both scanners
StepBoth ==
    /\ fn = "parse_mapping_reads, parse_nested_mapping_reads"
    /\ Len(traces[1]) < MaxScanLen
    /\ \E i \in 1 .. 2 : scans.error[i] = ""
    /\ \E s \in BothSteps :
           LET o(i) == ScanAs(i, scans.locals[i], s)
               live(i) == scans.error[i] = ""
           IN  /\ traces' = <<Append(traces[1], s), Append(traces[2], s)>>
               /\ scans' =
                      [locals |-> [i \in 1 .. 2 |->
                                     IF live(i)
                                     THEN [contracts |-> o(i).contracts,
                                           hashed |-> o(i).hashed,
                                           tmp_pre_image |-> o(i).tmp_pre_image]
                                     ELSE scans.locals[i]],
                       pos |-> [i \in 1 .. 2 |->
                                  IF live(i) THEN scans.pos[i] + 1 ELSE scans.pos[i]],
                       out |-> [i \in 1 .. 2 |->
                                  IF live(i) /\ o(i).yielded # None
                                  THEN Append(scans.out[i], o(i).yielded)
                                  ELSE scans.out[i]],
                       error |-> [i \in 1 .. 2 |->
                                    IF live(i) THEN o(i).error ELSE scans.error[i]]]
    /\ UNCHANGED <<args, scan_vars, chain, keys, send_vars>>

SpecBoth == InitBoth /\ [][StepBoth]_vars

--------------------------------------------------------------------------
(* send_transactions.  An address is the record [id, form]: the account it *)
(* names and whether the string is written in lower case or with the       *)
(* checksum capitals.  A transaction is the record [from, nonce] of the    *)
(* two fields the nonce assignment reads.  The coroutine is followed from  *)
(* one await to the next; while it is suspended the node counts the        *)
(* transactions it was handed and another task runs deploy_presigned_tx,   *)
(* itself followed from one await to the next.  sign_transaction is one    *)
(* await of the caller; a receipt may arrive before the node's count of    *)
(* the sender has moved.                                                   *)

\* "from" not in tx
NoFrom == [id |-> 0, form |-> "absent"]
\* "nonce" not in tx
NoNonce == -1

to_checksum_address(a) == [id |-> a.id, form |-> "checksum"]

\* the accounts; the first is written in either form
Accounts == 1 .. 2
Addresses ==
    { [id |-> 1, form |-> "lower"], [id |-> 1, form |-> "checksum"],
      [id |-> 2, form |-> "checksum"] }

\* the transactions of the list: of each sender without a nonce, of one
\* sender with a nonce, and without sender or nonce
TxParams ==
    [from : Addresses \cup {NoFrom}, nonce : {NoNonce}]
    \cup [from : {[id |-> 1, form |-> "checksum"]}, nonce : {7}]

\* tx = {**tx, **extra}
Merged(tx, ex) ==
    [from |-> IF ex.from # NoFrom THEN ex.from ELSE tx.from,
     nonce |-> IF ex.nonce # NoNonce THEN ex.nonce ELSE tx.nonce]

\* extra.setdefault("from", account) when an account is given
WithAccount(ex, account) ==
    IF account # NoFrom /\ ex.from = NoFrom THEN [ex EXCEPT !.from = account]
    ELSE ex

\* get_nonce up to its await: for an address that is not in nonces it
\* suspends in get_transaction_count, for one that is it adds one to the
\* entry and returns it
get_nonce(ns, addr) ==
    IF addr \notin DOMAIN ns THEN [await |-> TRUE, nonces |-> ns]
    ELSE [await |-> FALSE, nonces |-> [ns EXCEPT ![addr] = @ + 1]]

\* the arguments account and check: no account, an address, or a BaseAccount
\* that signs
SendArgs ==
    { [account |-> NoFrom, signer |-> FALSE, check |-> TRUE],
      [account |-> [id |-> 1, form |-> "checksum"], signer |-> FALSE,
       check |-> FALSE],
      [account |-> [id |-> 1, form |-> "checksum"], signer |-> TRUE,
       check |-> TRUE] }

\* the transaction of an iteration: tx is {**tx, **extra}, from and nonce
\* are the sender and the nonce it goes out with; here, no iteration is under
\* way
NoTx == [tx |-> [from |-> NoFrom, nonce |-> NoNonce], from |-> NoFrom,
         nonce |-> NoNonce]

\* the calls send_transactions is suspended in while other tasks and the
\* node run
Suspended ==
    {"get_transaction_count", "sign_transaction", "send_transaction",
     "send_raw_transaction", "wait_for_transaction_receipt"}

\* the call that hands the transaction over: sign_transaction with a
\* BaseAccount, send_transaction otherwise
HandOver == IF send_args.signer THEN "sign_transaction" ELSE "send_transaction"

\* the keyword arguments extra: with or without a sender, which need not be
\* the account, and with or without a nonce
Extras == [from : {NoFrom, [id |-> 2, form |-> "checksum"]},
           nonce : {NoNonce, 5}]

\* no deploy_presigned_tx call of another task yet
NoDeploy ==
    [pc |-> "idle", deployer |-> 0, funder |-> NoFrom, signer |-> FALSE,
     nonce |-> NoNonce]

\* the signer of the presigned transaction, and the funders of a
\* deploy_presigned_tx call: the account given or the node's first account
Deployers == {2}
DeployFunders == { [id |-> a, form |-> "checksum"] : a \in Accounts }

\* deploy_presigned_tx has returned or raised: its local variables are gone
Ended(how) == [NoDeploy EXCEPT !.pc = how]

InitSend ==
    /\ InitScan("send_transactions", "any")
    /\ chain = <<>>
    /\ keys = <<>>
    /\ traces = <<>>
    /\ scans = <<>>
    /\ send_args \in SendArgs
    /\ \E ex \in Extras : extra = WithAccount(ex, send_args.account)
    /\ nonces = <<>>
    /\ sent = <<>>
    /\ node = [a \in Accounts |-> IF a = 1 THEN 3 ELSE 0]
    /\ phase = "loop"
    /\ cur = NoTx
    /\ fetches = <<>>
    /\ receipts = <<>>
    /\ pending = <<>>
    /\ other = NoDeploy

\* the first loop takes the next transaction tx and runs to its first await:
\* tx["from"] raises KeyError, or get_nonce suspends in
\* get_transaction_count, or the nonce is at hand and the transaction is
\* handed over
NextTx ==
    /\ phase = "loop"
    /\ Len(sent) < MaxTxs
    /\ \E tx \in TxParams :
           LET m == Merged(tx, extra)
           IN  IF m.nonce # NoNonce
               THEN /\ cur' = [tx |-> m, from |-> m.from, nonce |-> m.nonce]
                    /\ phase' = HandOver
                    /\ UNCHANGED nonces
               ELSE IF m.from = NoFrom
               THEN \* tx["from"] raises KeyError
                    /\ cur' = [tx |-> m, from |-> m.from, nonce |-> m.nonce]
                    /\ phase' = "raised"
                    /\ UNCHANGED nonces
               ELSE LET addr == to_checksum_address(m.from)
                        g == get_nonce(nonces, addr)
                    IN  /\ nonces' = g.nonces
                        /\ cur' = [tx |-> m, from |-> m.from,
                                   nonce |-> IF g.await THEN NoNonce
                                             ELSE g.nonces[addr]]
                        /\ phase' = IF g.await THEN "get_transaction_count"
                                    ELSE HandOver
    /\ UNCHANGED <<args, scan_vars, chain, keys, traces, scans, extra, sent,
                   node, send_args, fetches, receipts, pending, other>>

\* the node answers get_transaction_count: the count it has now goes into
\* nonces and into the transaction
GetTransactionCount ==
    /\ phase = "get_transaction_count"
    /\ LET addr == to_checksum_address(cur.from)
           count == node[addr.id]
       IN  /\ nonces' = Put(nonces, addr, count)
           /\ cur' = [cur EXCEPT !.nonce = count]
           /\ fetches' = Append(fetches,
                  [addr |-> addr, count |-> count, at |-> Len(sent) + 1])
    /\ phase' = HandOver
    /\ UNCHANGED <<args, scan_vars, chain, keys, traces, scans, extra, sent,
                   node, send_args, receipts, pending, other>>

\* sign_transaction returns: the transaction is signed with the account's
\* address as its sender; its nonce is set, so none is filled in
SignTransaction ==
    /\ phase = "sign_transaction"
    /\ cur' = [cur EXCEPT !.from = send_args.account]
    /\ phase' = "send_raw_transaction"
    /\ UNCHANGED <<args, scan_vars, chain, keys, traces, scans, extra, nonces,
                   sent, node, send_args, fetches, receipts, pending, other>>

\* the node has taken the transaction and its hash is appended to txhashes
Sent(raw) ==
    /\ sent' = Append(sent, [tx |-> cur.tx, from |-> cur.from,
                             nonce |-> cur.nonce, raw |-> raw])
    /\ pending' = Append(pending, cur.from.id)
    /\ cur' = NoTx
    /\ phase' = "loop"
    /\ UNCHANGED <<args, scan_vars, chain, keys, traces, scans, extra, nonces,
                   node, send_args, fetches, receipts, other>>

\* send_transaction returns
SendTransaction ==
    /\ phase = "send_transaction"
    /\ Sent(FALSE)

\* send_raw_transaction returns
SendRawTransaction ==
    /\ phase = "send_raw_transaction"
    /\ Sent(TRUE)

\* the list txs is exhausted: the second loop awaits its first receipt, or
\* there is none and the empty list is returned
EndOfTxs ==
    /\ phase = "loop"
    /\ phase' = IF sent = <<>> THEN "done" ELSE "wait_for_transaction_receipt"
    /\ UNCHANGED <<args, scan_vars, chain, keys, traces, scans, extra, nonces,
                   sent, node, send_args, cur, fetches, receipts, pending,
                   other>>

\* the receipt of the next hash arrives; with check, a status other than 1
\* fails the assertion; after the last receipt the list is returned
WaitForTransactionReceipt ==
    /\ phase = "wait_for_transaction_receipt"
    /\ \E st \in {0, 1} :
           IF send_args.check /\ st # 1
           THEN /\ phase' = "raised"
                /\ UNCHANGED receipts
           ELSE /\ receipts' = Append(receipts, st)
                /\ phase' = IF Len(receipts) + 1 = Len(sent) THEN "done"
                            ELSE "wait_for_transaction_receipt"
    /\ UNCHANGED <<args, scan_vars, chain, keys, traces, scans, extra, nonces,
                   sent, node, send_args, cur, fetches, pending, other>>

\* while send_transactions is suspended, the node counts the next of the
\* transactions it was handed; one without a sender is counted for no account
Mine ==
    /\ phase \in Suspended
    /\ pending # <<>>
    /\ pending' = Tail(pending)
    /\ node' = IF Head(pending) = 0 THEN node
               ELSE [node EXCEPT ![Head(pending)] = @ + 1]
    /\ UNCHANGED <<args, scan_vars, chain, keys, traces, scans, extra, nonces,
                   sent, phase, send_args, cur, fetches, receipts, other>>

\* the variables a step of the other task leaves alone
OtherUnchanged ==
    UNCHANGED <<args, scan_vars, chain, keys, traces, scans, extra, nonces,
                sent, node, phase, send_args, cur, fetches, receipts>>

\* while send_transactions is suspended, another task calls
\* deploy_presigned_tx with a transaction presigned by the deployer and with
\* no funder, with an address as funder, or with a BaseAccount, which alone
\* signs; it suspends in get_code
DeployCall ==
    /\ phase \in Suspended
    /\ other.pc = "idle"
    /\ \E deployer \in Deployers, funder \in {NoFrom} \cup DeployFunders,
          signer \in BOOLEAN :
           /\ funder.id # deployer
           /\ signer => funder # NoFrom
           /\ other' = [pc |-> "get_code", deployer |-> deployer,
                        funder |-> funder, signer |-> signer,
                        nonce |-> NoNonce]
    /\ UNCHANGED pending
    /\ OtherUnchanged

\* get_code answers: with code the contract is deployed already and the call
\* returns, without it the deployer's balance is asked for
DeployGetCode ==
    /\ phase \in Suspended
    /\ other.pc = "get_code"
    /\ \E deployed \in BOOLEAN :
           other' = IF deployed THEN Ended("returned")
                    ELSE [other EXCEPT !.pc = "get_balance"]
    /\ UNCHANGED pending
    /\ OtherUnchanged

\* get_balance answers: a balance below fee starts the transfer from the
\* funder, by default the node's first account, which is asked for; a
\* transfer is a send_transactions call of one transaction without a nonce,
\* which suspends in get_transaction_count
DeployGetBalance ==
    /\ phase \in Suspended
    /\ other.pc = "get_balance"
    /\ \E short \in BOOLEAN :
           other' = [other EXCEPT
                        !.pc = IF ~short THEN "send_raw_transaction"
                               ELSE IF other.funder = NoFrom THEN "accounts"
                               ELSE "transfer.get_transaction_count"]
    /\ UNCHANGED pending
    /\ OtherUnchanged

\* w3.eth.accounts answers: its first address is the funder, an address that
\* does not sign
DeployAccounts ==
    /\ phase \in Suspended
    /\ other.pc = "accounts"
    /\ \E funder \in DeployFunders :
           /\ funder.id # other.deployer
           /\ other' = [other EXCEPT !.funder = funder,
                                     !.pc = "transfer.get_transaction_count"]
    /\ UNCHANGED pending
    /\ OtherUnchanged

\* the transfer's get_transaction_count answers with the node's count of the
\* funder, the nonce of the funding transaction, which a BaseAccount signs and
\* which for an address goes to the node's send_transaction
TransferGetTransactionCount ==
    /\ phase \in Suspended
    /\ other.pc = "transfer.get_transaction_count"
    /\ other' = [other EXCEPT
                    !.nonce = node[other.funder.id],
                    !.pc = IF other.signer THEN "transfer.sign_transaction"
                           ELSE "transfer.send_transaction"]
    /\ UNCHANGED pending
    /\ OtherUnchanged

\* the transfer's sign_transaction returns
TransferSignTransaction ==
    /\ phase \in Suspended
    /\ other.pc = "transfer.sign_transaction"
    /\ other' = [other EXCEPT !.pc = "transfer.send_raw_transaction"]
    /\ UNCHANGED pending
    /\ OtherUnchanged

\* the node has taken the funding transaction
TransferSend ==
    /\ phase \in Suspended
    /\ other.pc \in {"transfer.send_transaction", "transfer.send_raw_transaction"}
    /\ pending' = Append(pending, other.funder.id)
    /\ other' = [other EXCEPT !.pc = "transfer.wait_for_transaction_receipt"]
    /\ OtherUnchanged

\* the receipt of the funding transaction arrives: a status other than 1
\* fails the assertion of send_transactions, otherwise the deployer's raw
\* transaction is sent
TransferReceipt ==
    /\ phase \in Suspended
    /\ other.pc = "transfer.wait_for_transaction_receipt"
    /\ \E st \in {0, 1} :
           other' = IF st = 1
                    THEN [other EXCEPT !.pc = "send_raw_transaction"]
                    ELSE Ended("raised")
    /\ UNCHANGED pending
    /\ OtherUnchanged

\* the node has taken the deployer's presigned transaction
DeploySendRaw ==
    /\ phase \in Suspended
    /\ other.pc = "send_raw_transaction"
    /\ pending' = Append(pending, other.deployer)
    /\ other' = [other EXCEPT !.pc = "wait_for_transaction_receipt"]
    /\ OtherUnchanged

\* the receipt of the deployment arrives: the two assertions pass, or one
\* fails
DeployReceipt ==
    /\ phase \in Suspended
    /\ other.pc = "wait_for_transaction_receipt"
    /\ \E ok \in BOOLEAN :
           other' = Ended(IF ok THEN "returned" ELSE "raised")
    /\ UNCHANGED pending
    /\ OtherUnchanged

\* deploy_presigned_tx of the other task, from one await to the next
deploy_presigned_tx ==
    \/ DeployCall
    \/ DeployGetCode
    \/ DeployGetBalance
    \/ DeployAccounts
    \/ TransferGetTransactionCount
    \/ TransferSignTransaction
    \/ TransferSend
    \/ TransferReceipt
    \/ DeploySendRaw
    \/ DeployReceipt

SpecSend ==
    InitSend /\ [][NextTx \/ GetTransactionCount \/ SignTransaction
                   \/ SendTransaction \/ SendRawTransaction \/ EndOfTxs
                   \/ WaitForTransactionReceipt \/ Mine
                   \/ deploy_presigned_tx]_vars

--------------------------------------------------------------------------
(* parse_balance_slot and the slot read *)

\* the locator returned a descriptor (at the step and the tuple of its match)
Located(f) == fn = f /\ status = "returned" /\ result # None

\* the slot of the last step is the keccak256 of the pre-image recorded for it
SlotIsDigest ==
    /\ Top(step.stack) \in DOMAIN hashed
    /\ Top(step.stack) =
           keccak(hashed[Top(step.stack)][1], hashed[Top(step.stack)][2])

\* C1 as stated: for any trace, a descriptor returned by parse_balance_slot
\* derives, for the user, the slot operand of an SLOAD step attributed to token.
C1_AnyTrace ==
    Located("parse_balance_slot") =>
        /\ get_op_name(step) = "SLOAD"
        /\ yielded # None
        /\ yielded[1] = token
        /\ value(result[1], user).slot = Rjust32(Top(step.stack))

\* C1 amended: the same, for the traces in which the slot read is the
\* keccak256 of the pre-image the scan recorded for it.
C1_DerivedSlotIsReadSlot ==
    Located("parse_balance_slot") =>
        /\ get_op_name(step) = "SLOAD"
        /\ yielded # None
        /\ yielded[1] = token
        /\ yielded[4] = Top(step.stack)
        /\ SlotIsDigest => value(result[1], user).slot = Rjust32(Top(step.stack))

\* a descriptor in the Vyper order, found from a genuine digest
C1_Witness ==
    /\ Located("parse_balance_slot")
    /\ ~result[1].is_solidity
    /\ SlotIsDigest
    /\ value(result[1], user).slot = Top(step.stack)

--------------------------------------------------------------------------
(* parse_allowance_slot and the slot read *)

\* C2: a descriptor returned by parse_allowance_slot derives, for the owner and
\* then the spender, the slot of the SLOAD that produced the matching tuple,
\* whatever the order of the operands of the inner and of the outer hash.
C2_DerivedSlotIsReadSlot ==
    Located("parse_allowance_slot") =>
        /\ get_op_name(step) = "SLOAD"
        /\ value(value(result[1], user), spender).slot = Rjust32(Top(step.stack))

--------------------------------------------------------------------------
(* MappingSlot.value *)

\* the key left-padded with zero bytes to 32 bytes
Pad32(key) == Bytes(WordLen, key.val)

\* C3: for a 32-byte index and a key of at most 32 bytes, value(key).slot is
\* keccak256(pad32(key) ++ index) under is_solidity and
\* keccak256(index ++ pad32(key)) otherwise.
C3_ValueSlot ==
    \A i \in 1 .. Len(keys) :
        (chain[i].slot.len = WordLen /\ keys[i].len <= WordLen) =>
            chain[i + 1].slot =
                IF chain[i].is_solidity
                THEN Bytes(WordLen, <<Pad32(keys[i]), chain[i].slot>>)
                ELSE Bytes(WordLen, <<chain[i].slot, Pad32(keys[i])>>)

\* a 20-byte key under the Vyper order, and one further level
C3_Witness ==
    /\ Len(keys) = 2
    /\ keys[1].len = AddrLen
    /\ ~chain[1].is_solidity
    /\ chain[2].slot = Bytes(WordLen, <<chain[1].slot, Pad32(keys[1])>>)
    /\ chain[3].slot = Bytes(WordLen, <<chain[2].slot, Pad32(keys[2])>>)

--------------------------------------------------------------------------
(* Exceptions *)

\* C4: no locator raises, whatever the trace; stated for the case the claim
\* names, an SLOAD at a depth above 1 (with its operand on the stack).
C4_NeverRaises ==
    (get_op_name(step) = "SLOAD" /\ step.depth > 1 /\ Len(step.stack) > 0) =>
        status # "raised"

\* C5: a step whose stack holds fewer entries than the scanner reads for it is
\* skipped and the scan goes on: no such step ends the scan with the
\* IndexError of the stack access.
C5_ShortStackSkipped == error # "IndexError"

--------------------------------------------------------------------------
(* The nested lookup *)

\* the last step is an SLOAD whose address is in the hash table
SloadHit ==
    /\ get_op_name(step) = "SLOAD"
    /\ step.has_stack
    /\ Len(step.stack) > 0
    /\ Top(step.stack) \in DOMAIN hashed

\* the outer pair of that SLOAD, and whether each is a recorded hash result
N0 == hashed[Top(step.stack)][1]
N1 == hashed[Top(step.stack)][2]
R0 == N0 \in DOMAIN hashed
R1 == N1 \in DOMAIN hashed

\* C6 as stated: the nested scanner emits for such an SLOAD only if exactly
\* one of n0, n1 is a recorded hash result, with (v0, v1) its inputs and v2 the
\* other operand; if neither or both are, it emits nothing.
C6_ExactlyOne ==
    (Nested(fn) /\ SloadHit) =>
        /\ (R0 = R1) => yielded = None
        /\ yielded # None =>
               /\ R0 # R1
               /\ <<yielded[2], yielded[3], yielded[4]>> =
                      IF R0 THEN <<hashed[N0][1], hashed[N0][2], N1>>
                      ELSE <<hashed[N1][1], hashed[N1][2], N0>>
               /\ yielded[5] = Top(step.stack)

--------------------------------------------------------------------------
(* The call context *)

RECURSIVE ContextOf(_, _, _)
\* The storage context of depth d after the call steps cs, found from the
\* steps alone: <<address>>, or <<>> when no step has opened the depth.  It is
\* the target of the last CALL or STATICCALL at depth d - 1, or, when a
\* DELEGATECALL is the last call there, the context depth d - 1 had when that
\* DELEGATECALL was made.
ContextOf(cs, d, top) ==
    LET at == { i \in 1 .. Len(cs) : cs[i].depth = d - 1 }
    IN  IF at = {} THEN (IF d = 1 THEN <<top>> ELSE <<>>)
        ELSE LET i == CHOOSE i \in at : \A j \in at : j <= i
             IN  IF get_op_name(cs[i]) = "DELEGATECALL"
                 THEN ContextOf(SubSeq(cs, 1, i - 1), d - 1, top)
                 ELSE <<Last20(Second(cs[i].stack))>>

\* the last call step at depth d is a DELEGATECALL
DelegateOpened(cs, d) ==
    \E i \in 1 .. Len(cs) :
        /\ cs[i].depth = d
        /\ get_op_name(cs[i]) = "DELEGATECALL"
        /\ \A j \in i + 1 .. Len(cs) : cs[j].depth # d

\* C7: a tuple emitted for an SLOAD in a frame opened by DELEGATECALL carries
\* the address of the frame that made the DELEGATECALL, through chains of
\* DELEGATECALLs, never the address delegated to.
C7_DelegateInherits ==
    (~Nested(fn) /\ yielded # None /\ DelegateOpened(calls, step.depth - 1)) =>
        <<yielded[1]>> = ContextOf(calls, step.depth, top_contract(fn, token))

\* CALL at depth 1 into the proxy, DELEGATECALL at depth 2 into the logic
\* contract, and a read at depth 3 attributed to the proxy
C7_Witness ==
    /\ calls = << Step("CALL", 1, <<Other, Offset0>>, <<>>),
                  Step("DELEGATECALL", 2, <<Logic, Offset0>>, <<>>) >>
    /\ get_op_name(step) = "SLOAD"
    /\ step.depth = 3
    /\ yielded # None
    /\ yielded[1] = Other

--------------------------------------------------------------------------
(* What the locators return *)

\* the tuple matches the probe key of parse_balance_slot
Matches1(t) ==
    /\ t[1] = token
    /\ t[2] = Rjust32(user) \/ t[3] = Rjust32(user)

\* the tuple matches the probe keys of parse_allowance_slot
Matches2(t) ==
    /\ t[1] = token
    /\ t[4] = Rjust32(spender)
    /\ t[2] = Rjust32(user) \/ t[3] = Rjust32(user)

\* the descriptor of a matching tuple: the index is the operand that is not
\* the user, and is_solidity says that the user is v0
Descriptor(t) ==
    IF t[2] = Rjust32(user) THEN MappingSlot(t[3], TRUE)
    ELSE MappingSlot(t[2], FALSE)

\* the descriptor of a matching tuple can be built: its index is 32 bytes
HasDescriptor(t) ==
    IF t[2] = Rjust32(user) THEN ~MappingSlotRaises(t[3])
    ELSE ~MappingSlotRaises(t[2])

\* C8: parse_balance_slot returns the descriptor of the first tuple, in trace
\* order, attributed to token with the padded user as v0 or v1, the index being
\* the other operand whatever it is; the tuples before it (other contracts,
\* neither operand) do not end the search.
C8_FirstMatch ==
    fn = "parse_balance_slot" =>
        /\ \A i \in 1 .. Len(out) - 1 : ~Matches1(out[i])
        /\ status = "running" => \A i \in 1 .. Len(out) : ~Matches1(out[i])
        /\ result # None =>
               /\ status = "returned"
               /\ Len(out) > 0
               /\ Matches1(out[Len(out)])
               /\ result = <<Descriptor(out[Len(out)])>>
        /\ (Len(out) > 0 /\ Matches1(out[Len(out)])) =>
               /\ status = "returned"
               /\ result = <<Descriptor(out[Len(out)])>>

C10_NoneIffNoMatch ==
    (fn = "parse_balance_slot" /\ status # "running") =>
        ((status = "returned" /\ result = None)
            <=> \A i \in 1 .. Len(out) : ~Matches1(out[i]))

--------------------------------------------------------------------------
(* The batch locators *)

\* the tuple matches the probe key(s) of the batch locator invoked
BatchMatches(t) ==
    /\ t[2] = Rjust32(user) \/ t[3] = Rjust32(user)
    /\ fn = "parse_batch_allowance_slot" => t[4] = Rjust32(spender)

\* the emitted tuples attributed to contract c that match and have a descriptor
MatchesOf(c) ==
    { i \in 1 .. Len(out) :
        out[i][1] = c /\ BatchMatches(out[i]) /\ HasDescriptor(out[i]) }

--------------------------------------------------------------------------
(* One hash, one read *)

\* s is a KECCAK256 step over exactly 64 bytes that its memory dump holds
K64(s) ==
    /\ s.has_stack
    /\ get_op_name(s) = "KECCAK256"
    /\ Len(s.stack) >= 2
    /\ Second(s.stack) = Size64
    /\ Len(s.memory) >= Top(s.stack).val[1] \div WordLen + 2

\* the first and the second 32 bytes that s hashes
HashedWords(s) ==
    LET k == Top(s.stack).val[1] \div WordLen
    IN  <<s.memory[k + 1], s.memory[k + 2]>>

\* the step consumed next is an SLOAD of the digest of what step hashed
SloadOfHash ==
    /\ K64(step)
    /\ status = "running"
    /\ n' = n + 1
    /\ get_op_name(step') = "SLOAD"
    /\ step'.has_stack
    /\ Len(step'.stack) > 0
    /\ Top(step'.stack) = keccak(HashedWords(step)[1], HashedWords(step)[2])

\* C12: when a KECCAK256 over exactly 64 bytes is followed by an SLOAD of its
\* digest, parse_mapping_reads emits exactly one tuple for it, whose v0, v1 and
\* slot are the first 32 hashed bytes, the second 32 hashed bytes and the
\* address of the SLOAD.
C12_OneTuple ==
    [][ (fn = "parse_mapping_reads" /\ SloadOfHash) =>
            /\ Len(out') = Len(out) + 1
            /\ yielded' # None
            /\ <<yielded'[2], yielded'[3], yielded'[4]>> =
                   <<HashedWords(step)[1], HashedWords(step)[2], Top(step'.stack)>>
      ]_vars

--------------------------------------------------------------------------
(* The two-step balanceOf trace *)

\* KECCAK256 at depth 1 over pad32(user) || pad32(9), user the address 1
HashStep ==
    Step("KECCAK256", 1, <<Size64, Offset0>>,
         <<Rjust32(Addr(1)), Rjust32(Bytes(1, <<9>>))>>)

\* SLOAD of the resulting hash
ReadStep ==
    Step("SLOAD", 1, <<keccak(Rjust32(Addr(1)), Rjust32(Bytes(1, <<9>>)))>>, <<>>)

\* C13: on the trace [HashStep, ReadStep] parse_balance_slot(T, user, trace)
\* returns MappingSlot(pad32(9), True), which equals MappingSlot(9, True)
\* built from the integer 9.
C13_TwoStepTrace ==
    [][ (fn = "parse_balance_slot" /\ user = Addr(1) /\ n = 1 /\ step = HashStep
            /\ n' = 2 /\ step' = ReadStep) =>
            /\ status' = "returned"
            /\ result' = <<MappingSlot(Rjust32(Bytes(1, <<9>>)), TRUE)>>
            /\ result' = <<MappingSlotOfInt(9, TRUE)>>
      ]_vars

\* the two steps were consumed and the locator returned at the read
C13_Witness ==
    /\ fn = "parse_balance_slot"
    /\ n = 2
    /\ step = ReadStep
    /\ out = << <<token, Rjust32(Addr(1)), Rjust32(Bytes(1, <<9>>)),
                 Top(ReadStep.stack)>> >>
    /\ status = "returned"
    /\ result = <<MappingSlotOfInt(9, TRUE)>>

--------------------------------------------------------------------------
(* Scans do not share state *)

\* C14: two scans of the same trace with the same top-level contract yield
\* the same tuple sequence (and end the same way): after the same number of
\* steps each has yielded the same tuples, whatever the other has done before.
C14_SameTraceSameTuples ==
    (scans # <<>> /\ traces[1] = traces[2] /\ scans.pos[1] = scans.pos[2]) =>
        /\ scans.out[1] = scans.out[2]
        /\ scans.error[1] = scans.error[2]

\* both scans went through a trace whose read comes before the hash that
\* would make it a hit, and through one with a hit
C14_Witness ==
    /\ scans # <<>>
    /\ traces[1] = traces[2]
    /\ Len(traces[1]) = MaxScanLen
    /\ scans.pos = <<MaxScanLen, MaxScanLen>>
    /\ get_op_name(traces[1][1]) = "SLOAD"
    /\ Len(traces[1][1].stack) > 0
    /\ Top(traces[1][1].stack) \in DOMAIN scans.locals[1].hashed
    /\ Len(scans.out[2]) = 1

\* C15: of two scans over different traces advanced in any interleaving, each
\* yields the tuples it yields when run alone.
C15_AsAlone ==
    (scans # <<>> /\ traces[1] # traces[2]) =>
        \A i \in 1 .. 2 :
            LET a == Alone(fn, ScanTop(i), traces[i], scans.pos[i])
            IN  /\ scans.out[i] = a.out
                /\ scans.error[i] = a.error

\* the second scan has recorded a hash and opened depth 2 for its contract;
\* the first, whose trace reads that slot at depth 2 without hashing, yields
\* nothing
C15_Witness ==
    /\ scans # <<>>
    /\ traces[1] # traces[2]
    /\ fn = "parse_mapping_reads"
    /\ scans.pos[2] = Len(traces[2])
    /\ scans.pos[1] = Len(traces[1])
    /\ InnerSol \in DOMAIN scans.locals[2].hashed
    /\ \E k \in 1 .. Len(traces[1]) :
           /\ get_op_name(traces[1][k]) = "SLOAD"
           /\ Len(traces[1][k].stack) > 0
           /\ Top(traces[1][k].stack) = InnerSol
    /\ scans.out[1] = <<>>
    /\ scans.error[1] = ""

--------------------------------------------------------------------------
(* Nonces of a batch of transactions *)

\* the transactions sent for account a that carried no nonce, {**tx, **extra}
\* being the transaction
AutoOf(a) ==
    { i \in 1 .. Len(sent) :
        /\ sent[i].tx.nonce = NoNonce
        /\ sent[i].from.id = a }

\* the answers of get_transaction_count for account a
FetchesOf(a) == { k \in 1 .. Len(fetches) : fetches[k].addr.id = a }

\* C16: the transactions of one sender without a nonce get n, n + 1, n + 2, ...
\* in list order, n being the node's count for the sender, asked for once,
\* while the first of them was handled; each sender is counted by itself, and
\* a transaction that carries a nonce is sent with it.
C16_Nonces ==
    /\ [](phase # "" =>
            /\ \A a \in Accounts :
                   /\ Cardinality(FetchesOf(a)) <= 1
                   /\ \A i \in AutoOf(a) :
                          /\ FetchesOf(a) # {}
                          /\ LET f == fetches[CHOOSE k \in FetchesOf(a) : TRUE]
                             IN  /\ \A j \in AutoOf(a) : f.at <= j
                                 /\ f.at \in AutoOf(a)
                                 /\ sent[i].nonce =
                                        f.count
                                        + Cardinality({ j \in AutoOf(a) : j < i })
            /\ \A i \in 1 .. Len(sent) :
                   sent[i].tx.nonce # NoNonce =>
                       sent[i].nonce = sent[i].tx.nonce)
    /\ [][Len(fetches') > Len(fetches) =>
              LET f == fetches'[Len(fetches')]
              IN  /\ f.count = node[f.addr.id]
                  /\ f.addr = to_checksum_address(cur.from)
                  /\ cur.tx.nonce = NoNonce]_vars

--------------------------------------------------------------------------
(* The pending pre-image *)

\* s is a KECCAK256 step whose size operand is 64
Keccak64(s) ==
    /\ s.has_stack
    /\ get_op_name(s) = "KECCAK256"
    /\ Len(s.stack) >= 2
    /\ IsInt64(Second(s.stack))

\* s has a stack and a word on top of it
HasTop(s) == s.has_stack /\ Len(s.stack) > 0

\* C17 as stated: the buffer of a running scan is non-empty only between a
\* 64-byte KECCAK256 step and the next step of the trace, that is, only while
\* the KECCAK256 step is the step consumed last.
C17_UntilNextStep ==
    (~Nested(fn) /\ status = "running" /\ tmp_pre_image # None) => Keccak64(step)

\* C17 amended: the buffer holds at most one pair; it becomes non-empty at a
\* 64-byte KECCAK256 step and stays so over records without a stack, until the
\* next step that has a stack; on that step, when the stack has a top word,
\* the pair is recorded under that word and cleared before the opcode is
\* processed (an SLOAD of that word already hits), and when the stack is
\* empty the scan raises.
C17_UntilNextStack ==
    [][ (~Nested(fn) /\ n' = n + 1) =>
            /\ tmp_pre_image' # None =>
                   /\ Len(tmp_pre_image') = 2
                   /\ \/ Keccak64(step')
                      \/ /\ tmp_pre_image' = tmp_pre_image
                         /\ ~HasTop(step')
            /\ (tmp_pre_image # None /\ HasTop(step')) =>
                   /\ Top(step'.stack) \in DOMAIN hashed'
                   /\ hashed'[Top(step'.stack)] = tmp_pre_image
                   /\ (get_op_name(step') = "SLOAD"
                          /\ step'.depth \in DOMAIN contracts) =>
                          /\ yielded' # None
                          /\ <<yielded'[2], yielded'[3]>> = tmp_pre_image
            /\ (tmp_pre_image # None /\ step'.has_stack /\ ~HasTop(step')) =>
                   /\ status' = "raised"
                   /\ hashed' = hashed
      ]_vars

\* a record without a stack was consumed while the pair was pending, and the
\* pair is still pending
C17_Witness ==
    /\ fn = "parse_mapping_reads"
    /\ status = "running"
    /\ ~step.has_stack
    /\ n >= 2
    /\ tmp_pre_image # None

--------------------------------------------------------------------------
(* Hits and misses *)

\* the address of the SLOAD step s is recorded: it is in the hash table, or
\* the pending pair of an earlier KECCAK256 is recorded under it at s
Recorded(s) == Top(s.stack) \in DOMAIN hashed \/ tmp_pre_image # None

\* C18: in parse_mapping_reads an SLOAD step emits a tuple if and only if its
\* address is the stack-top word recorded for an earlier 64-byte KECCAK256
\* step; an SLOAD of an address that is not recorded emits nothing and
\* changes neither the hash table nor the call-context map.
C18_HitIffRecorded ==
    [][ (fn = "parse_mapping_reads" /\ n' = n + 1 /\ HasTop(step')
            /\ get_op_name(step') = "SLOAD") =>
            /\ yielded' # None <=> Recorded(step')
            /\ ~Recorded(step') => (hashed' = hashed /\ contracts' = contracts)
      ]_vars

--------------------------------------------------------------------------
(* Hashes over other sizes *)

\* s is a KECCAK256 step whose size operand is not 64
KeccakNot64(s) ==
    /\ s.has_stack
    /\ get_op_name(s) = "KECCAK256"
    /\ Len(s.stack) >= 2
    /\ ~IsInt64(Second(s.stack))

\* C19: a KECCAK256 step whose size is not 64 leaves the buffer empty and adds
\* no entry for its result: the table changes at that step only by the pair
\* that was pending, recorded under the step's stack top, and the step after
\* it records nothing, so that an SLOAD of the result misses.
C19_OtherSizes ==
    [][ (~Nested(fn) /\ n' = n + 1) =>
            /\ KeccakNot64(step') =>
                   /\ tmp_pre_image' = None
                   /\ yielded' = None
                   /\ status' = "running"
                   /\ hashed' = IF tmp_pre_image = None THEN hashed
                                ELSE Put(hashed, Top(step'.stack), tmp_pre_image)
            /\ (KeccakNot64(step) /\ HasTop(step')) =>
                   /\ hashed' = hashed
                   /\ (get_op_name(step') = "SLOAD"
                          /\ Top(step'.stack) \notin DOMAIN hashed) =>
                          yielded' = None
      ]_vars

\* a 32-byte hash came right after a 64-byte one: the pending pair is in the
\* table under the stack top of the 32-byte hash step, and the buffer is empty
C19_Witness ==
    /\ fn = "parse_mapping_reads"
    /\ n = 2
    /\ KeccakNot64(step)
    /\ status = "running"
    /\ tmp_pre_image = None
    /\ DOMAIN hashed = {Top(step.stack)}

--------------------------------------------------------------------------
(* The frame a CALL opens *)

\* the call steps consumed at depth d
CallsAt(d) == { i \in 1 .. Len(calls) : calls[i].depth = d }

\* the last of them
LastCallAt(d) == CHOOSE i \in CallsAt(d) : \A j \in CallsAt(d) : j <= i

\* C20: a tuple emitted for an SLOAD at depth d + 1 carries the low 20 bytes
\* of the target operand of the last call step at depth d, when that step is a
\* CALL or a STATICCALL; of two CALLs at the same depth into A and then B, the
\* reads of the first frame go to A and those of the second to B.
C20_CallTarget ==
    (~Nested(fn) /\ yielded # None /\ CallsAt(step.depth - 1) # {}) =>
        LET c == calls[LastCallAt(step.depth - 1)]
        IN  get_op_name(c) \in {"CALL", "STATICCALL"} =>
                yielded[1] = Last20(Second(c.stack))

\* a CALL into one contract, a read in its frame, a CALL at the same depth
\* into another, a read in that frame
C20_Witness ==
    /\ Len(calls) = 2
    /\ get_op_name(calls[1]) = "CALL"
    /\ get_op_name(calls[2]) = "CALL"
    /\ calls[1].depth = calls[2].depth
    /\ Len(out) = 2
    /\ out[1][1] = Last20(Second(calls[1].stack))
    /\ out[2][1] = Last20(Second(calls[2].stack))
    /\ out[1][1] # out[2][1]
    /\ step.depth = calls[2].depth + 1
    /\ yielded = out[2]

--------------------------------------------------------------------------
(* One pass over the trace *)

RECURSIVE SloadsIn(_, _)
\* the number of SLOAD steps with a stack among the first k steps of tr
SloadsIn(tr, k) ==
    IF k = 0 THEN 0
    ELSE SloadsIn(tr, k - 1)
         + (IF tr[k].has_stack /\ get_op_name(tr[k]) = "SLOAD" THEN 1 ELSE 0)

\* the slot of a yielded tuple: its last component
SlotOf(t) == t[Len(t)]

\* C21: a scan consumes the steps of its trace one by one in trace order,
\* never one twice, and has no step left to take once the trace is exhausted;
\* a tuple is appended to the output only by an SLOAD step, one at most, with
\* that step's slot, so the output never has more tuples than the steps
\* consumed hold SLOADs.
C21_OnePass ==
    /\ [](\A i \in 1 .. 2 :
            /\ scans.pos[i] <= Len(traces[i])
            /\ Len(scans.out[i]) <= SloadsIn(traces[i], scans.pos[i])
            /\ scans.pos[i] = Len(traces[i]) => ~ENABLED Advance(i))
    /\ [][\A i \in 1 .. 2 :
            LET s == traces[i][scans.pos[i] + 1]
            IN  /\ scans'.pos[i] \in {scans.pos[i], scans.pos[i] + 1}
                /\ scans'.pos[i] = scans.pos[i] => scans'.out[i] = scans.out[i]
                /\ scans'.pos[i] = scans.pos[i] + 1 =>
                       \/ scans'.out[i] = scans.out[i]
                       \/ /\ s.has_stack
                          /\ get_op_name(s) = "SLOAD"
                          /\ Len(scans'.out[i]) = Len(scans.out[i]) + 1
                          /\ SubSeq(scans'.out[i], 1, Len(scans.out[i])) = scans.out[i]
                          /\ SlotOf(scans'.out[i][Len(scans'.out[i])]) = Top(s.stack)
       ]_vars

\* a scan that has consumed its whole trace, whose two SLOADs each emitted a
\* tuple, in two frames
C21_Witness ==
    \E i \in 1 .. 2 :
        /\ scans.pos[i] = Len(traces[i])
        /\ scans.error[i] = ""
        /\ Len(scans.out[i]) = 2
        /\ scans.out[i][1][1] # scans.out[i][2][1]
        /\ SloadsIn(traces[i], scans.pos[i]) = 2

--------------------------------------------------------------------------
(* Every MappingSlot has a 32-byte slot *)

\* the constructor call has finished
Constructed == chain # <<>> \/ status = "raised"

\* C22: every MappingSlot object has a 32-byte slot: built from an integer it
\* holds the 32-byte big-endian encoding of the integer, a byte string of
\* another length raises ValueError and leaves no object, and value(key)
\* returns an object with a 32-byte slot whatever the length of the key.
C22_Slot32 ==
    /\ \A i \in 1 .. Len(chain) : chain[i].slot.len = WordLen
    /\ (fn = "MappingSlot" /\ Constructed) =>
           /\ init_slot.is_int =>
                  /\ status # "raised"
                  /\ chain[1].slot = Bytes(WordLen, <<init_slot.int>>)
           /\ (~init_slot.is_int /\ init_slot.bytes.len = WordLen) =>
                  /\ status # "raised"
                  /\ chain[1].slot = init_slot.bytes
           /\ (~init_slot.is_int /\ init_slot.bytes.len # WordLen) =>
                  /\ status = "raised"
                  /\ error = "ValueError"
                  /\ chain = <<>>

\* an object built from an integer and a descriptor derived from it with a
\* key of more than 32 bytes
C22_Witness ==
    /\ fn = "MappingSlot"
    /\ init_slot = IntArg(9)
    /\ Len(chain) = 2
    /\ keys[1].len > WordLen
    /\ chain[2].slot.len = WordLen

--------------------------------------------------------------------------
(* The top-level contract *)

\* every call step consumed has depth 1 or more
CallsFromDepth1 == \A i \in 1 .. Len(calls) : calls[i].depth >= 1

\* C23: while no step at a depth below 1 opens a frame, the call context of
\* depth 1 is the top-level contract the caller gave (the 20-byte zero
\* placeholder in a batch locator), and every tuple emitted for an SLOAD at
\* depth 1 carries it, whatever calls and returns came before.
C23_TopContract ==
    (fn \in Locators /\ CallsFromDepth1) =>
        /\ 1 \in DOMAIN contracts
        /\ contracts[1] = top_contract(fn, token)
        /\ (yielded # None /\ step.depth = 1) =>
               yielded[1] = top_contract(fn, token)

\* a call into a token, a read in its frame, the return, a second call, and a
\* read back at depth 1
C23_Witness ==
    /\ Batch(fn)
    /\ CallsFromDepth1
    /\ Len(calls) = 2
    /\ Len(out) = 2
    /\ out[1][1] = Token
    /\ step.depth = 1
    /\ yielded = out[2]
    /\ yielded[1] = Placeholder

--------------------------------------------------------------------------
(* The probe key on both sides *)

\* the tuple yielded passes the filters of the locator and both operands of
\* its inner hash are the padded probe key
Tie ==
    /\ fn \in {"parse_balance_slot", "parse_allowance_slot"}
    /\ yielded # None
    /\ yielded[1] = token
    /\ fn = "parse_allowance_slot" => yielded[4] = Rjust32(spender)
    /\ yielded[2] = Rjust32(user)
    /\ yielded[3] = Rjust32(user)

\* C24: when the padded probe key equals both v0 and v1 of the tuple the
\* locator stops at, parse_balance_slot and parse_allowance_slot return
\* MappingSlot(that value, is_solidity = True) and raise nothing.
C24_TieIsSolidity ==
    Tie =>
        /\ status = "returned"
        /\ error = ""
        /\ result = <<MappingSlot(Rjust32(user), TRUE)>>

\* parse_balance_slot has stopped at a tuple whose v0 and v1 are both the
\* padded probe key
C24_Witness ==
    /\ fn = "parse_balance_slot"
    /\ Tie
    /\ Len(out) = 1
    /\ status = "returned"
    /\ result[1].is_solidity

--------------------------------------------------------------------------
(* Several matching tuples *)

\* the emitted tuples that match the probe key(s) of the single-token locator
\* invoked
SingleMatches ==
    { i \in 1 .. Len(out) :
        IF fn = "parse_allowance_slot" THEN Matches2(out[i]) ELSE Matches1(out[i]) }

FirstOf(S) == CHOOSE i \in S : \A j \in S : i <= j
LastOf(S) == CHOOSE i \in S : \A j \in S : j <= i

\* the emitted tuples attributed to contract c that match the probe key(s) of
\* the batch locator invoked
AllMatchesOf(c) ==
    { i \in 1 .. Len(out) : out[i][1] = c /\ BatchMatches(out[i]) }

\* C25: a batch locator maps a candidate with several matching tuples to the
\* descriptor of the last of them in trace order; a single-token locator
\* returns the descriptor of the first matching tuple, which is the last tuple
\* it takes from the scan, and consumes no step after it.
C25_LastOrFirst ==
    /\ Batch(fn) =>
           \A c \in tokens :
               AllMatchesOf(c) # {} =>
                   /\ c \in DOMAIN result
                   /\ result[c] = Descriptor(out[LastOf(AllMatchesOf(c))])
    /\ (fn \in {"parse_balance_slot", "parse_allowance_slot"}
            /\ SingleMatches # {}) =>
           /\ status = "returned"
           /\ result = <<Descriptor(out[FirstOf(SingleMatches)])>>
           /\ FirstOf(SingleMatches) = Len(out)
           /\ yielded = out[Len(out)]
           /\ ~ENABLED Next

--------------------------------------------------------------------------
(* The nested scanner against the single-level one *)

\* the tuples of an output as (contract, slot) pairs
Projected(o) == [i \in 1 .. Len(o) |-> <<o[i][1], SlotOf(o[i])>>]

RECURSIVE IsSubsequence(_, _)
\* a is b with some elements left out
IsSubsequence(a, b) ==
    IF a = <<>> THEN TRUE
    ELSE IF b = <<>> THEN FALSE
    ELSE IF Head(a) = Head(b) THEN IsSubsequence(Tail(a), Tail(b))
    ELSE IsSubsequence(a, Tail(b))

\* C26: over one trace and top-level contract, the (contract, slot) pairs of
\* parse_nested_mapping_reads are a subsequence of those of
\* parse_mapping_reads, and after every step the two scanners hold the same
\* hash table and the same call context.
C26_NestedWithinSingle ==
    fn = "parse_mapping_reads, parse_nested_mapping_reads" =>
        /\ IsSubsequence(Projected(scans.out[2]), Projected(scans.out[1]))
        /\ scans.locals[2].hashed = scans.locals[1].hashed
        /\ scans.locals[2].contracts = scans.locals[1].contracts

--------------------------------------------------------------------------
(* One hash table for all frames *)

\* the pre-image the table holds for the slot of the SLOAD step s once the
\* pending pair is recorded
PreImageOf(s) ==
    IF tmp_pre_image # None THEN tmp_pre_image ELSE hashed[Top(s.stack)]

\* C27: the hash table is not scoped by contract or depth: no step removes an
\* entry, and an SLOAD of a recorded address in a frame whose contract is
\* known is a hit whatever the depth of the step that hashed it; the tuple
\* carries the contract of the SLOAD's frame.
C27_OneTable ==
    [][ (fn = "parse_mapping_reads" /\ n' = n + 1) =>
            /\ DOMAIN hashed \subseteq DOMAIN hashed'
            /\ (/\ HasTop(step')
                /\ get_op_name(step') = "SLOAD"
                /\ Recorded(step')
                /\ step'.depth \in DOMAIN contracts) =>
                   yielded' = <<contracts[step'.depth], PreImageOf(step')[1],
                                PreImageOf(step')[2], Top(step'.stack)>>
      ]_vars

\* a hash computed at depth 1 in the top-level contract, a CALL into another
\* contract, and an SLOAD of the digest at depth 2 attributed to that contract
C27_Witness ==
    /\ fn = "parse_mapping_reads"
    /\ get_op_name(step) = "SLOAD"
    /\ step.depth = 2
    /\ Len(calls) = 1
    /\ get_op_name(calls[1]) = "CALL"
    /\ contracts[1] = Token
    /\ yielded = <<Other, Rjust32(User), Index, InnerSol>>

--------------------------------------------------------------------------
(* The flag along a chain *)

\* C28: value(key) leaves the receiver as it was and returns an object with
\* the receiver's is_solidity flag, so every descriptor of a chain
\* value(k1).value(k2)... has the flag of the root and is hashed in the order
\* the root's flag selects.
C28_FlagInherited ==
    /\ [](\A i \in 1 .. Len(chain) : chain[i].is_solidity = chain[1].is_solidity)
    /\ [][ (chain # <<>> /\ Len(chain') = Len(chain) + 1) =>
             LET self == chain[Len(chain)]
                 new == chain'[Len(chain')]
                 key == Rjust32(keys'[Len(keys')])
             IN  /\ SubSeq(chain', 1, Len(chain)) = chain
                 /\ new.is_solidity = self.is_solidity
                 /\ new.slot = IF chain[1].is_solidity THEN keccak(key, self.slot)
                               ELSE keccak(self.slot, key)
       ]_vars

\* a Vyper root and two descriptors derived from it in turn
C28_Witness ==
    /\ fn = "MappingSlot.value"
    /\ Len(chain) = 3
    /\ ~chain[1].is_solidity
    /\ ~chain[3].is_solidity
    /\ chain[3].slot = keccak(chain[2].slot, Rjust32(keys[2]))

--------------------------------------------------------------------------
(* Keys in padded form *)

RECURSIVE LocateAll(_, _, _, _)
\* the locator fn called with the keys u and sp, after the first k tuples of
\* the scan output o
LocateAll(u, sp, o, k) ==
    IF k = 0 THEN Verdict(<<>>, FALSE, "")
    ELSE LET before == LocateAll(u, sp, o, k - 1)
         IN  IF before.returned \/ before.error # "" THEN before
             ELSE LocateAs(u, sp, o[k], before.result)

\* C29: a key of at most 32 bytes gives the same derived descriptor as its
\* 32-byte left-zero-padded form, and a locator called with 20-byte addresses
\* ends as the same locator called with the addresses padded to 32 bytes.
C29_PaddedKeys ==
    /\ keys # <<>> =>
           LET k == keys[Len(keys)]
               self == chain[Len(chain) - 1]
           IN  k.len <= WordLen =>
                   /\ chain[Len(chain)] = value(self, Pad32(k))
                   /\ value(self, k) = value(self, Pad32(k))
    /\ fn \in Locators =>
           LET padded == LocateAll(Pad32(user), Pad32(spender), out, Len(out))
           IN  /\ user.len = AddrLen
               /\ result = padded.result
               /\ padded.error # "" => (status = "raised" /\ error = padded.error)
               /\ ~Batch(fn) =>
                      (padded.returned <=> (status = "returned" /\ result # None))

\* parse_batch_allowance_slot, called with the 20-byte owner and the 20-byte
\* spender, holds for the token the descriptor that the padded keys give
C29_Witness ==
    /\ fn = "parse_batch_allowance_slot"
    /\ user.len = AddrLen
    /\ spender.len = AddrLen
    /\ Token \in DOMAIN result
    /\ result[Token] = MappingSlot(Index, TRUE)
    /\ LocateAll(Pad32(user), Pad32(spender), out, Len(out)).result = result

--------------------------------------------------------------------------
(* Entries outlive their frames *)

\* a step that writes the call context
IsCallStep(s) == s.has_stack /\ IsCall(s)

\* the call steps among the first k steps of the trace tr
CallsOf(tr, k) == SelectSeq(SubSeq(tr, 1, k), IsCallStep)

\* C30: no step removes an entry of the call context, and an entry changes
\* only at a CALL, STATICCALL or DELEGATECALL one depth above it; so a tuple
\* emitted for an SLOAD at depth d > 1 carries the address written by the most
\* recent of those steps at depth d - 1, also when the frame of the SLOAD was
\* opened later by another opcode.
C30_EntriesStay ==
    [][ \A i \in 1 .. 2 :
          LET before == scans.locals[i].contracts
              after == scans'.locals[i].contracts
              k == scans.pos[i]
              s == traces'[i][k + 1]
              o == scans'.out[i]
          IN  scans'.pos[i] = k + 1 =>
                  /\ DOMAIN before \subseteq DOMAIN after
                  /\ \A d \in DOMAIN before :
                         after[d] # before[d] => (IsCallStep(s) /\ s.depth = d - 1)
                  /\ (Len(o) > Len(scans.out[i]) /\ s.depth > 1) =>
                         <<o[Len(o)][1]>> = ContextOf(CallsOf(traces'[i], k), s.depth, Token)
      ]_vars

\* a CALL into a contract, then a CALLCODE at the same depth, a hash and a
\* read at depth 2: the tuple carries the target of the CALL
C30_Witness ==
    /\ fn = "parse_mapping_reads, parse_nested_mapping_reads"
    /\ traces[1] = << Step("CALL", 1, <<Other, Offset0>>, <<>>),
                      Step("CALLCODE", 1, <<Logic, Offset0>>, <<>>),
                      Step("KECCAK256", 1, <<Size64, Offset0>>, <<Rjust32(User), Index>>),
                      Step("SLOAD", 2, <<InnerSol>>, <<>>) >>
    /\ scans.pos[1] = 4
    /\ scans.out[1] = << <<Other, Rjust32(User), Index, InnerSol>> >>

====
